---- MODULE Spec2Model ----
(***************************************************************************)
(* The four flashcard study pages of the client, as event-loop state       *)
(* machines:                                                               *)
(*   main    src/unnamed/part_001   listening / word / writing, Next button *)
(*   vocab   src/feng_custom/static/french_vocab.js   vocabulary spelling  *)
(*   upload  src/unnamed/part_002   shadowing, upload-based analysis       *)
(*   local   src/unnamed/part_003   shadowing, on-device recognizer        *)
(* A step is one run of JavaScript between two awaits: a click handler, a  *)
(* continuation after a settled promise, or a media / recognizer event.    *)
(* Each async function that is suspended at an await is a record in the    *)
(* bag `tasks`; the step that resumes it draws how its request settled.    *)
(***************************************************************************)
EXTENDS Integers, Sequences, FiniteSets, Bags, TLC

VARIABLES
  page,             \* which script the document loaded
  currentCard,      \* let currentCard
  answerShown,      \* let answerShown
  statusEl,         \* statusEl.textContent, by message kind
  revealBtn,        \* [disabled, hidden] of #reveal-btn
  nextBtn,          \* [disabled] of #next-btn (main page only)
  easeButtons,      \* "none" (emptied and hidden), "enabled", "disabled"
  answerBox,        \* "hidden" or "shown"
  translateBtn,     \* .translate-btn inside answerBox: "none", "enabled", "busy"
  tasks,            \* bag of suspended async functions and queued events
  loads,            \* number of cards the server has served so far
  lastEvent,        \* the settled request the last step resumed from, if any
  \* text-answer pages
  inputBox,         \* inputBox.value of the visible text input, as characters
  html,             \* answerBox.innerHTML: its expected line and its user line
  \* audio of the main study page
  audioPlayer,      \* #audio-player: [src, playing], each 0 or the card of the audio
  timers,           \* the cards whose setTimeout(..., 200) callback is pending
  \* shadowing pages
  recordBtn,        \* [disabled] of #record-btn
  mediaRecorder,    \* let mediaRecorder: 0 (null) or the index of a recorder
  mediaStream,      \* let mediaStream: 0 (null) or the index of a stream
  recs,             \* every granted stream with the MediaRecorder made on it
  recordedChunks,   \* let recordedChunks: the recorder each chunk came from
  recordedBlob,     \* let recordedBlob: <<>> (null) or the chunks of the blob
  playbackUrl,      \* let playbackUrl: <<>> (null) or the chunks of its blob
  recordClicked,    \* a recording was asked for since the last reveal or load
  \* local-scoring shadowing page
  SpeechRecognition,          \* the browser has a speech recognizer
  recognition,                \* let recognition: FALSE (null) or created
  recognitionShouldRestart,   \* let recognitionShouldRestart
  recognitionActive,          \* let recognitionActive
  recognizedSegments,         \* let recognizedSegments
  recognizer,                 \* the browser's recognizer: [state, card]
  feedbackBox,                \* #feedback-box: [hidden, tier, pct]
  \* the scoring functions of the local-scoring page, called on their own
  expected,         \* first argument (a of levenshtein, tokens of renderTokens)
  actual,           \* second argument (b of levenshtein)
  returned          \* what the last call returned: [fn, value]

cardVars == <<currentCard, answerShown, statusEl, revealBtn, nextBtn,
              easeButtons, answerBox, translateBtn>>
recVars == <<recordBtn, mediaRecorder, mediaStream, recs, recordedChunks,
             recordedBlob, playbackUrl, recordClicked>>
recogVars == <<SpeechRecognition, recognition, recognitionShouldRestart,
               recognitionActive, recognizedSegments, recognizer>>
textVars == <<inputBox, html>>
callVars == <<expected, actual, returned>>
audioVars == <<audioPlayer, timers>>
vars == <<page, cardVars, textVars, tasks, loads, lastEvent, recVars, recogVars,
          feedbackBox, callVars, audioVars>>

-----------------------------------------------------------------------------
(* Bounds *)

\* Cards the server serves before it only answers 404 or fails.
MaxCards == 2

\* Suspended functions and queued events held at once.
MaxTasks == 3

\* Microphone grants (each makes one stream and one MediaRecorder).
MaxRecordings == 2

\* Final results the recognizer delivers for one card.
MaxSegments == 1

\* Characters the user has typed into the visible text input.
MaxInput == 1

\* Length of the strings the scoring functions are called with.
MaxLen == 3

\* Most segments in recognizedSegments when evaluatePronunciation is called
\* on its own.
MaxHeard == 2

\* Most tokens in a sequence given to renderTokens.
MaxTokens == 3

-----------------------------------------------------------------------------
(* Values *)

NoCard == [cardId |-> 0, type |-> "none", buttonsIsArray |-> FALSE]

MainTypes == {"listening", "word", "writing", "other"}

Cards(types) ==
  [cardId : {loads + 1}, type : types, buttonsIsArray : BOOLEAN]

\* How a request can settle.
NextOutcomes == {"ok", "notFound", "status", "reject"}

\* On the text-answer pages also: a body res.json() cannot read, and a body
\* that is read and stored but has no `data` for renderCard to look into.
TextNextOutcomes == NextOutcomes \cup {"unreadable", "unrenderable"}
AnswerOutcomes == {"ok", "errorBody", "status", "reject"}
RevealOutcomes == {"ok", "reject"}
DiffOutcomes == {"ok", "fail"}
TranslateOutcomes == {"ok", "fail"}
AnalyzeOutcomes == {"ok", "fail"}
MicOutcomes == {"granted", "denied"}

\* A suspended async function: fn is the function, req the request it awaits,
\* card the cardId that was current when the handler started (for
\* submitAnswer and the analysis upload: the cardId in the request body),
\* attached whether the DOM nodes it captured are still in the document, rec
\* the recorder a queued media event belongs to, blob the chunks of the blob
\* an analysis upload carries, userText the trimmed input showAnswer read
\* before it awaits the diff.
\* A settled request: what was asked and how it settled.
Ev(what, outcome) == [what |-> what, outcome |-> outcome]

\* The last step handled a click or a media event, not a settled request.
NoEvent == Ev("", "")

Task(fn, req, card) ==
  [fn |-> fn, req |-> req, card |-> card, attached |-> TRUE, rec |-> 0, blob |-> <<>>,
   userText |-> <<>>]

Add(bag, t) == bag (+) SetToBag({t})
Remove(bag, t) == bag (-) SetToBag({t})
Pending == BagToSet(tasks)
Room == BagCardinality(tasks) < MaxTasks

\* init() has run: the click listeners are bound.
Bound == \A t \in Pending : t.fn # "init"

\* The catch around the reveal notification, were it to show the failure.
revealSurfaced(o) == IF o = "reject" THEN "revealFailed" ELSE statusEl

\* The catch around `await fetch(".../reveal")`: console.warn only, the
\* status text stays as it is however the request settled.
revealCaught(o) == statusEl

\* answerBox.innerHTML is replaced: nodes captured by running translate
\* handlers leave the document.
Detach(bag) ==
  LET ts == BagToSet(bag)
      d(t) == IF t.fn = "translate" THEN [t EXCEPT !.attached = FALSE] ELSE t
  IN  [u \in {d(t) : t \in ts} |->
         LET src == {t \in ts : d(t) = u}
             n[S \in SUBSET src] ==
               IF S = {} THEN 0
               ELSE LET x == CHOOSE y \in S : TRUE
                    IN  CopiesIn(x, bag) + n[S \ {x}]
         IN  n[src]]

-----------------------------------------------------------------------------
(* Text input and the answer box of the text-answer pages *)

\* The characters that matter to trim() and escapeHtml(): white space, a
\* plain letter and a character HTML gives a meaning to.
Chars == {" ", "a", "<"}

\* Every value the user can leave in the input.
Inputs == UNION {[1..n -> Chars] : n \in 0..MaxInput}

\* String.prototype.trim(): white space removed at both ends.
RECURSIVE trimStart(_)
trimStart(str) ==
  IF str # <<>> /\ Head(str) = " " THEN trimStart(Tail(str)) ELSE str

RECURSIVE trimEnd(_)
trimEnd(str) ==
  IF str # <<>> /\ str[Len(str)] = " "
  THEN trimEnd(SubSeq(str, 1, Len(str) - 1)) ELSE str

trim(str) == trimEnd(trimStart(str))

\* escapeHtml(str): each character with a meaning in HTML becomes its entity.
escapeHtml(str) ==
  [i \in DOMAIN str |->
     CASE str[i] = "&" -> "&amp;"
       [] str[i] = "<" -> "&lt;"
       [] str[i] = ">" -> "&gt;"
       [] str[i] = "\"" -> "&quot;"
       [] str[i] = "'" -> "&#39;"
       [] OTHER -> str[i]]

\* What one diff-line of the answer box holds: nothing, the "not filled in"
\* placeholder, the tokens renderTokens() made of a diff, or escaped text.
Line(as, text) == [as |-> as, text |-> text]
NoLine == Line("none", <<>>)
Placeholder == Line("placeholder", <<>>)

\* answerBox.innerHTML: the expected line ("" none, "tokens", "em" for the
\* escaped text in <em>, "escaped" for the escaped text alone, "answer" for
\* the card's own answer HTML) and the user's line.
Html(expectedHtml, actualHtml) ==
  [expectedHtml |-> expectedHtml, actualHtml |-> actualHtml]
NoHtml == Html("", NoLine)

\* The user's line when the input is not looked at: tokens or escaped text.
actualHtmlOfText(userText, hasTokens) ==
  IF hasTokens THEN Line("tokens", userText)
  ELSE Line("escaped", escapeHtml(userText))

\* The user's line after a diff that succeeded: the placeholder for an empty
\* input, else the diff's tokens when it has some, else the escaped input.
actualHtml(userText, hasTokens) ==
  IF userText = <<>> THEN Placeholder
  ELSE IF hasTokens THEN Line("tokens", userText)
  ELSE Line("escaped", escapeHtml(userText))

\* The user's line of the catch branch: the escaped input or the placeholder.
fallbackActual(userText) ==
  IF userText = <<>> THEN Placeholder ELSE Line("escaped", escapeHtml(userText))

\* audioPlayer: the card whose audioUrl is its src (0 without src) and the
\* card whose audio play() started (0 when nothing was started).
Audio(src, playing) == [src |-> src, playing |-> playing]
NoAudio == Audio(0, 0)

\* A token of the diff service.
Token(text, status) == [text |-> text, status |-> status]

\* One element of `parts`: a span with its class and escaped text, or the
\* separator " ".
Span(cls, text) == [kind |-> "span", cls |-> cls, text |-> text]
Separator == [kind |-> "text", cls |-> "", text |-> <<" ">>]

\* The class /^[,.;!?):\]”’]$/ tests for, the two curly quotes by name.
ClosingPunct == {",", ".", ";", "!", "?", ")", ":", "]", "rdquo", "rsquo"}

\* The class /^[({“‘]$/ tests for.
Opening == {"(", "{", "ldquo", "lsquo"}

isPunct(text) == Len(text) = 1 /\ text[1] \in ClosingPunct
isOpening(text) == Len(text) = 1 /\ text[1] \in Opening

\* The class name without the test for "missing".
clsTwoWay(status) ==
  IF status = "match" THEN "diff-match" ELSE "diff-extra"

\* token.status === "match" ? "diff-match" : token.status === "missing" ?
\* "diff-miss" : "diff-extra"
cls(status) ==
  IF status = "match" THEN "diff-match"
  ELSE IF status = "missing" THEN "diff-miss"
  ELSE "diff-extra"

\* The test for a separator without its look at the previous token.
separatedNoOpening(tokens, idx) == idx > 1 /\ ~isPunct(tokens[idx].text)

\* idx > 0 && !isPunct && !prevIsOpening, for the token at position idx
\* (counted from 1).
separated(tokens, idx) ==
  /\ idx > 1
  /\ ~isPunct(tokens[idx].text)
  /\ ~isOpening(tokens[idx - 1].text)

\* tokens.forEach(...) from position idx on: what is pushed to `parts`.
RECURSIVE forEach(_, _)
forEach(tokens, idx) ==
  IF idx > Len(tokens) THEN <<>>
  ELSE (IF separated(tokens, idx) THEN <<Separator>> ELSE <<>>)
       \o <<Span(cls(tokens[idx].status), escapeHtml(tokens[idx].text))>>
       \o forEach(tokens, idx + 1)

\* The argument of renderTokens: null or undefined, or an array of tokens.
Arg(absent, tokens) == [absent |-> absent, tokens |-> tokens]

\* renderTokens(tokens): the parts that are joined into the HTML.
renderTokens(arg) ==
  IF arg.absent \/ Len(arg.tokens) = 0 THEN <<>> ELSE forEach(arg.tokens, 1)

-----------------------------------------------------------------------------
(* Main study page: src/unnamed/part_001 *)

\* clearUI().
M_clearUI ==
  /\ currentCard' = NoCard
  /\ answerShown' = FALSE
  /\ answerBox' = "hidden"
  /\ translateBtn' = "none"
  /\ easeButtons' = "none"
  /\ inputBox' = <<>>
  /\ html' = NoHtml
  /\ revealBtn' = [revealBtn EXCEPT !.disabled = TRUE]

\* loadCard() up to its await: clearUI(), status, Next disabled, fetch sent.
M_loadCardStart(rest) ==
  /\ M_clearUI
  /\ statusEl' = "loading"
  /\ nextBtn' = [disabled |-> TRUE]
  /\ tasks' = Add(Detach(rest), Task("loadCard", "next", 0))

\* DOMContentLoaded -> init(): listeners bound, first loadCard().
M_init ==
  /\ page = "main"
  /\ \E t \in Pending :
       /\ t.fn = "init"
       /\ M_loadCardStart(Remove(tasks, t))
  /\ lastEvent' = NoEvent
  /\ UNCHANGED <<recVars, recogVars, page, audioVars, feedbackBox, callVars, loads>>

\* Click on #next-btn.
M_nextClick ==
  /\ page = "main"
  /\ Bound
  /\ ~nextBtn.disabled
  /\ Room
  /\ M_loadCardStart(tasks)
  /\ lastEvent' = NoEvent
  /\ UNCHANGED <<recVars, recogVars, page, audioVars, feedbackBox, callVars, loads>>

\* The timer callback of renderCard: audioPlayer.play() starts whatever the
\* player's src is at that time; without a src the promise of play()
\* rejects and nothing starts.
M_timerPlay == Audio(audioPlayer.src, audioPlayer.src)

\* The audio part of renderCard(payload): with data.audioUrl the player gets
\* the card's audio as src and the auto-play timer is set; without, the src
\* is removed.
M_renderAudio(c, hasAudio) ==
  IF hasAudio
  THEN /\ audioPlayer' = Audio(c.cardId, 0)
       /\ timers' = timers \cup {c.cardId}
  ELSE /\ audioPlayer' = NoAudio
       /\ UNCHANGED timers

\* The callback of setTimeout(..., 200) set by renderCard for card c.
M_autoplayTimer ==
  /\ page = "main"
  /\ \E c \in timers : timers' = timers \ {c}
  /\ audioPlayer' = M_timerPlay
  /\ lastEvent' = Ev("timer", "fired")
  /\ UNCHANGED <<page, cardVars, textVars, tasks, loads, recVars, recogVars, feedbackBox,
                 callVars>>

\* loadCard() after `await fetch("/api/next")`.
M_loadCardResume ==
  /\ page = "main"
  /\ \E t \in Pending, o \in TextNextOutcomes :
       /\ t.fn = "loadCard"
       /\ tasks' = Remove(tasks, t)
       /\ lastEvent' = Ev("next", o)
       /\ CASE o = "ok" ->
                 /\ loads < MaxCards
                 /\ \E c \in Cards(MainTypes), hasAudio \in BOOLEAN :
                      /\ currentCard' = c
                      /\ loads' = c.cardId
                      /\ M_renderAudio(c, hasAudio)
                 /\ easeButtons' = "none"
                 /\ statusEl' = "card"
                 /\ revealBtn' = [revealBtn EXCEPT !.disabled = FALSE]
            [] o = "notFound" ->
                 /\ statusEl' = "noDue"
                 /\ UNCHANGED <<currentCard, loads, easeButtons, revealBtn, audioVars>>
            [] o = "unrenderable" ->
                 /\ loads < MaxCards
                 /\ \E c \in Cards(MainTypes) :
                      /\ currentCard' = c
                      /\ loads' = c.cardId
                 /\ statusEl' = "fetchFailed"
                 /\ UNCHANGED <<easeButtons, revealBtn, audioVars>>
            [] OTHER ->
                 /\ statusEl' = "fetchFailed"
                 /\ UNCHANGED <<currentCard, loads, easeButtons, revealBtn, audioVars>>
       /\ nextBtn' = [disabled |-> FALSE]
  /\ UNCHANGED <<recVars, recogVars, page, feedbackBox, callVars, textVars, answerShown, answerBox, translateBtn>>

\* The reveal click handler after `await showAnswer()`:
\* renderEaseButtons(currentCard.buttons) when currentCard is set and its
\* buttons are an array.
M_afterShowAnswer ==
  IF currentCard # NoCard /\ currentCard.buttonsIsArray
  THEN "enabled" ELSE easeButtons

\* Click on #reveal-btn: the handler disables the button and calls
\* showAnswer(), which returns at once or suspends at the reveal fetch.
M_revealClick ==
  /\ page = "main"
  /\ Bound
  /\ ~revealBtn.disabled /\ ~revealBtn.hidden
  /\ revealBtn' = [revealBtn EXCEPT !.disabled = TRUE]
  /\ lastEvent' = NoEvent
  /\ IF currentCard = NoCard \/ answerShown
     THEN /\ easeButtons' = M_afterShowAnswer
          /\ UNCHANGED <<answerShown, tasks>>
     ELSE /\ Room
          /\ answerShown' = TRUE
          /\ tasks' = Add(tasks, Task("showAnswer", "reveal", currentCard.cardId))
          /\ UNCHANGED easeButtons
  /\ UNCHANGED <<recVars, recogVars, page, audioVars, feedbackBox, callVars, textVars, currentCard, statusEl, nextBtn, answerBox, translateBtn, loads>>

\* showAnswer() after `await fetch("/api/reveal")`: destructures
\* currentCard (a TypeError when it is null, which ends the handler), then
\* either awaits the diff or renders the answer and returns to the click
\* handler.
M_showAnswerAfterReveal ==
  /\ page = "main"
  /\ \E t \in Pending, o \in RevealOutcomes :
       /\ t.fn = "showAnswer" /\ t.req = "reveal"
       /\ lastEvent' = Ev("reveal", o)
       /\ statusEl' = revealCaught(o)
       /\ IF currentCard = NoCard
          THEN /\ tasks' = Remove(tasks, t)
               /\ UNCHANGED <<easeButtons, answerBox, translateBtn, html>>
          ELSE IF currentCard.type \in {"listening", "word"}
          THEN /\ tasks' = Add(Remove(tasks, t),
                               [t EXCEPT !.req = "diff", !.userText = trim(inputBox)])
               /\ UNCHANGED <<easeButtons, answerBox, translateBtn, html>>
          ELSE /\ tasks' = Detach(Remove(tasks, t))
               /\ answerBox' = "shown"
               /\ html' = Html("answer", NoLine)
               /\ translateBtn' = "none"
               /\ easeButtons' = M_afterShowAnswer
  /\ UNCHANGED <<recVars, recogVars, page, audioVars, feedbackBox, callVars, inputBox, currentCard, answerShown, revealBtn, nextBtn, loads>>

\* showAnswer() after `await fetchDiff(...)`: renders the diff (with the
\* translate button) or the fallback, then returns to the click handler.
M_showAnswerAfterDiff ==
  /\ page = "main"
  /\ \E t \in Pending, o \in DiffOutcomes, hasExpected, hasActual \in BOOLEAN :
       /\ t.fn = "showAnswer" /\ t.req = "diff"
       /\ o = "fail" => ~hasExpected /\ ~hasActual
       /\ lastEvent' = Ev("diff", o)
       /\ tasks' = Detach(Remove(tasks, t))
       /\ answerBox' = "shown"
       /\ html' = IF o = "ok"
                  THEN Html(IF hasExpected THEN "tokens" ELSE "em",
                            actualHtml(t.userText, hasActual))
                  ELSE Html("escaped", fallbackActual(t.userText))
       /\ translateBtn' = IF o = "ok" THEN "enabled" ELSE "none"
       /\ easeButtons' = M_afterShowAnswer
  /\ UNCHANGED <<recVars, recogVars, page, audioVars, feedbackBox, callVars, inputBox, currentCard, answerShown, statusEl, revealBtn, nextBtn, loads>>

\* Click on .translate-btn: button disabled, translateToChinese(text) sent.
M_translateClick ==
  /\ page = "main"
  /\ translateBtn = "enabled"
  /\ Room
  /\ translateBtn' = "busy"
  /\ tasks' = Add(tasks, Task("translate", "translate", currentCard.cardId))
  /\ lastEvent' = NoEvent
  /\ UNCHANGED <<recVars, recogVars, page, audioVars, feedbackBox, callVars, textVars, currentCard, answerShown, statusEl, revealBtn, nextBtn,
                 easeButtons, answerBox, loads>>

\* translateToChinese() after its fetch, back in the button's handler:
\* output shown, btn.remove().  On nodes that left the document nothing
\* shows.
M_translateResume ==
  /\ page = "main"
  /\ \E t \in Pending, o \in TranslateOutcomes :
       /\ t.fn = "translate"
       /\ lastEvent' = Ev("translate", o)
       /\ tasks' = Remove(tasks, t)
       /\ translateBtn' = IF t.attached THEN "none" ELSE translateBtn
  /\ UNCHANGED <<recVars, recogVars, page, audioVars, feedbackBox, callVars, textVars, currentCard, answerShown, statusEl, revealBtn, nextBtn,
                 easeButtons, answerBox, loads>>

\* Click on an ease button: submitAnswer(ease) up to its await.
M_easeClick ==
  /\ page = "main"
  /\ easeButtons = "enabled"
  /\ lastEvent' = NoEvent
  /\ IF currentCard = NoCard
     THEN UNCHANGED <<statusEl, easeButtons, revealBtn, nextBtn, tasks>>
     ELSE /\ Room
          /\ statusEl' = "submitting"
          /\ easeButtons' = "disabled"
          /\ revealBtn' = [revealBtn EXCEPT !.disabled = TRUE]
          /\ nextBtn' = [disabled |-> TRUE]
          /\ tasks' = Add(tasks, Task("submitAnswer", "answer", currentCard.cardId))
  /\ UNCHANGED <<recVars, recogVars, page, audioVars, feedbackBox, callVars, textVars, currentCard, answerShown, answerBox, translateBtn, loads>>

\* statusEl after a failed submission: payload.error, or the status code,
\* or the message of the rejected fetch.
SubmitFailed(o) ==
  CASE o = "errorBody" -> "submitFailed:error"
    [] o = "status" -> "submitFailed:status"
    [] OTHER -> "submitFailed:network"

\* submitAnswer() after `await fetch("/api/answer")`.
M_submitAnswerResume ==
  /\ page = "main"
  /\ \E t \in Pending, o \in AnswerOutcomes :
       /\ t.fn = "submitAnswer"
       /\ lastEvent' = Ev("answer", o)
       /\ IF o = "ok"
          THEN M_loadCardStart(Remove(tasks, t))
          ELSE /\ tasks' = Remove(tasks, t)
               /\ statusEl' = SubmitFailed(o)
               /\ easeButtons' = IF easeButtons = "none" THEN "none" ELSE "enabled"
               /\ revealBtn' = [revealBtn EXCEPT !.disabled = FALSE]
               /\ nextBtn' = [disabled |-> FALSE]
               /\ UNCHANGED <<currentCard, answerShown, answerBox, translateBtn, textVars>>
  /\ UNCHANGED <<recVars, recogVars, page, audioVars, feedbackBox, callVars, loads>>

\* The user edits the visible text input (listenInput or wordInput).
M_input ==
  /\ page = "main"
  /\ currentCard # NoCard /\ currentCard.type \in {"listening", "word"}
  /\ \E v \in Inputs : v # inputBox /\ inputBox' = v
  /\ lastEvent' = NoEvent
  /\ UNCHANGED <<recVars, recogVars, page, audioVars, feedbackBox, callVars, cardVars, html, tasks, loads>>

NextMain ==
  \/ M_init
  \/ M_autoplayTimer
  \/ M_input
  \/ M_nextClick
  \/ M_loadCardResume
  \/ M_revealClick
  \/ M_showAnswerAfterReveal
  \/ M_showAnswerAfterDiff
  \/ M_translateClick
  \/ M_translateResume
  \/ M_easeClick
  \/ M_submitAnswerResume

-----------------------------------------------------------------------------
(* Vocabulary page: src/feng_custom/static/french_vocab.js *)

VocabTypes == {"french_vocab", "word", "other"}

\* clearUI().
V_clearUI ==
  /\ currentCard' = NoCard
  /\ answerShown' = FALSE
  /\ answerBox' = "hidden"
  /\ easeButtons' = "none"
  /\ inputBox' = <<>>
  /\ html' = NoHtml
  /\ revealBtn' = [disabled |-> TRUE, hidden |-> FALSE]

\* loadCard() up to its await.
V_loadCardStart(rest) ==
  /\ V_clearUI
  /\ statusEl' = "loading"
  /\ tasks' = Add(rest, Task("loadCard", "next", 0))

\* DOMContentLoaded -> init().
V_init ==
  /\ page = "vocab"
  /\ \E t \in Pending :
       /\ t.fn = "init"
       /\ V_loadCardStart(Remove(tasks, t))
  /\ lastEvent' = NoEvent
  /\ UNCHANGED <<recVars, recogVars, page, audioVars, feedbackBox, callVars, loads, nextBtn, translateBtn>>

\* loadCard() after `await fetch("/api/fv/next")`.
V_loadCardResume ==
  /\ page = "vocab"
  /\ \E t \in Pending, o \in TextNextOutcomes :
       /\ t.fn = "loadCard"
       /\ tasks' = Remove(tasks, t)
       /\ lastEvent' = Ev("next", o)
       /\ CASE o = "ok" ->
                 /\ loads < MaxCards
                 /\ \E c \in Cards(VocabTypes) :
                      /\ currentCard' = c
                      /\ loads' = c.cardId
                 /\ easeButtons' = "none"
                 /\ statusEl' = "card"
                 /\ revealBtn' = [revealBtn EXCEPT !.disabled = FALSE]
            [] o = "notFound" ->
                 /\ statusEl' = "noDue"
                 /\ UNCHANGED <<currentCard, loads, easeButtons, revealBtn>>
            [] o = "unrenderable" ->
                 /\ loads < MaxCards
                 /\ \E c \in Cards(VocabTypes) :
                      /\ currentCard' = c
                      /\ loads' = c.cardId
                 /\ statusEl' = "fetchFailed"
                 /\ UNCHANGED <<easeButtons, revealBtn>>
            [] OTHER ->
                 /\ statusEl' = "fetchFailed"
                 /\ UNCHANGED <<currentCard, loads, easeButtons, revealBtn>>
  /\ UNCHANGED <<recVars, recogVars, page, audioVars, feedbackBox, callVars, textVars, answerShown, answerBox, nextBtn, translateBtn>>

\* The reveal click handler after `await showAnswer()`.
V_afterShowAnswer ==
  IF currentCard # NoCard /\ currentCard.buttonsIsArray
  THEN "enabled" ELSE easeButtons

\* Click on #reveal-btn.
V_revealClick ==
  /\ page = "vocab"
  /\ Bound
  /\ ~revealBtn.disabled /\ ~revealBtn.hidden
  /\ revealBtn' = [revealBtn EXCEPT !.disabled = TRUE]
  /\ lastEvent' = NoEvent
  /\ IF currentCard = NoCard \/ answerShown
     THEN /\ easeButtons' = V_afterShowAnswer
          /\ UNCHANGED <<answerShown, tasks>>
     ELSE /\ Room
          /\ answerShown' = TRUE
          /\ tasks' = Add(tasks, Task("showAnswer", "reveal", currentCard.cardId))
          /\ UNCHANGED easeButtons
  /\ UNCHANGED <<recVars, recogVars, page, audioVars, feedbackBox, callVars, textVars, currentCard, statusEl, nextBtn, answerBox,
                 translateBtn, loads>>

\* showAnswer() after `await fetch("/api/fv/reveal")`.
V_showAnswerAfterReveal ==
  /\ page = "vocab"
  /\ \E t \in Pending, o \in RevealOutcomes :
       /\ t.fn = "showAnswer" /\ t.req = "reveal"
       /\ lastEvent' = Ev("reveal", o)
       /\ statusEl' = revealCaught(o)
       /\ IF currentCard = NoCard
          THEN /\ tasks' = Remove(tasks, t)
               /\ UNCHANGED <<easeButtons, answerBox, revealBtn, html>>
          ELSE IF currentCard.type \in {"french_vocab", "word"}
          THEN /\ tasks' = Add(Remove(tasks, t),
                               [t EXCEPT !.req = "diff", !.userText = trim(inputBox)])
               /\ UNCHANGED <<easeButtons, answerBox, revealBtn, html>>
          ELSE /\ tasks' = Remove(tasks, t)
               /\ answerBox' = "shown"
               /\ html' = Html("answer", NoLine)
               /\ revealBtn' = [revealBtn EXCEPT !.hidden = TRUE]
               /\ easeButtons' = V_afterShowAnswer
  /\ UNCHANGED <<recVars, recogVars, page, audioVars, feedbackBox, callVars, inputBox, currentCard, answerShown, nextBtn,
                 translateBtn, loads>>

\* showAnswer() after `await fetchDiff(...)`.
V_showAnswerAfterDiff ==
  /\ page = "vocab"
  /\ \E t \in Pending, o \in DiffOutcomes, hasExpected, hasActual \in BOOLEAN :
       /\ t.fn = "showAnswer" /\ t.req = "diff"
       /\ o = "fail" => ~hasExpected /\ ~hasActual
       /\ lastEvent' = Ev("diff", o)
       /\ tasks' = Remove(tasks, t)
       /\ answerBox' = "shown"
       /\ html' = IF o = "ok"
                  THEN Html(IF hasExpected THEN "tokens" ELSE "em",
                            actualHtml(t.userText, hasActual))
                  ELSE Html("escaped", fallbackActual(t.userText))
       /\ revealBtn' = [revealBtn EXCEPT !.hidden = TRUE]
       /\ easeButtons' = V_afterShowAnswer
  /\ UNCHANGED <<recVars, recogVars, page, audioVars, feedbackBox, callVars, inputBox, currentCard, answerShown, statusEl, nextBtn,
                 translateBtn, loads>>

\* Click on an ease button: submitAnswer(ease) up to its await.
V_easeClick ==
  /\ page = "vocab"
  /\ easeButtons = "enabled"
  /\ lastEvent' = NoEvent
  /\ IF currentCard = NoCard
     THEN UNCHANGED <<statusEl, easeButtons, revealBtn, tasks>>
     ELSE /\ Room
          /\ statusEl' = "submitting"
          /\ easeButtons' = "disabled"
          /\ revealBtn' = [revealBtn EXCEPT !.disabled = TRUE]
          /\ tasks' = Add(tasks, Task("submitAnswer", "answer", currentCard.cardId))
  /\ UNCHANGED <<recVars, recogVars, page, audioVars, feedbackBox, callVars, textVars, currentCard, answerShown, answerBox, nextBtn,
                 translateBtn, loads>>

\* submitAnswer() after `await fetch("/api/fv/answer")`.
V_submitAnswerResume ==
  /\ page = "vocab"
  /\ \E t \in Pending, o \in AnswerOutcomes :
       /\ t.fn = "submitAnswer"
       /\ lastEvent' = Ev("answer", o)
       /\ IF o = "ok"
          THEN V_loadCardStart(Remove(tasks, t))
          ELSE /\ tasks' = Remove(tasks, t)
               /\ statusEl' = SubmitFailed(o)
               /\ easeButtons' = IF easeButtons = "none" THEN "none" ELSE "enabled"
               /\ revealBtn' = [revealBtn EXCEPT !.disabled = FALSE]
               /\ UNCHANGED <<currentCard, answerShown, answerBox, textVars>>
  /\ UNCHANGED <<recVars, recogVars, page, audioVars, feedbackBox, callVars, loads, nextBtn, translateBtn>>

\* The user edits the visible text input (wordInput).
V_input ==
  /\ page = "vocab"
  /\ currentCard # NoCard /\ currentCard.type \in {"french_vocab", "word"}
  /\ \E v \in Inputs : v # inputBox /\ inputBox' = v
  /\ lastEvent' = NoEvent
  /\ UNCHANGED <<recVars, recogVars, page, audioVars, feedbackBox, callVars, cardVars, html, tasks, loads>>

NextVocab ==
  \/ V_init
  \/ V_input
  \/ V_loadCardResume
  \/ V_revealClick
  \/ V_showAnswerAfterReveal
  \/ V_showAnswerAfterDiff
  \/ V_easeClick
  \/ V_submitAnswerResume

-----------------------------------------------------------------------------
(* The browser's media objects, as both shadowing pages use them. *)

\* getUserMedia resolved: a stream with a live track, and the
\* MediaRecorder made on it and started while card c was current.
NewRec(c) == [live |-> TRUE, state |-> "recording", card |-> c]

Recording(i) == i # 0 /\ recs[i].state = "recording"

\* The recorders stopActiveRecording() makes inactive: mediaRecorder.stop()
\* on the current recorder, and the recorder of mediaStream when the tracks
\* it records from are stopped under it.
Stopping ==
  {i \in DOMAIN recs : recs[i].state = "recording" /\ i \in {mediaRecorder, mediaStream}}

\* A recorder that became inactive queues one task that fires
\* dataavailable and then stop.
StopEvents(is) ==
  SetToBag({[Task("recorder", "stop", recs[i].card) EXCEPT !.rec = i] : i \in is})

-----------------------------------------------------------------------------
(* Upload-based shadowing page: src/unnamed/part_002 *)

ShadowTypes == {"shadowing"}

\* stopActiveRecording(); `rest` is what the caller leaves in the task bag.
U_stopActiveRecording(rest) ==
  /\ recs' = [i \in DOMAIN recs |->
               [recs[i] EXCEPT !.state = IF i \in Stopping THEN "inactive" ELSE @,
                               !.live = IF i = mediaStream THEN FALSE ELSE @]]
  /\ mediaStream' = 0
  /\ recordBtn' = [disabled |-> FALSE]
  /\ tasks' = rest (+) StopEvents(Stopping)

\* resetRecordingArtifacts(false).
U_resetRecordingArtifacts(rest) ==
  /\ U_stopActiveRecording(rest)
  /\ recordedChunks' = <<>>
  /\ recordedBlob' = <<>>
  /\ playbackUrl' = <<>>

\* clearUI().
U_clearUI(rest) ==
  /\ currentCard' = NoCard
  /\ answerShown' = FALSE
  /\ answerBox' = "hidden"
  /\ easeButtons' = "none"
  /\ revealBtn' = [disabled |-> TRUE, hidden |-> FALSE]
  /\ U_resetRecordingArtifacts(rest)
  /\ recordClicked' = FALSE

\* loadCard() up to its await.
U_loadCardStart(rest) ==
  /\ U_clearUI(Add(rest, Task("loadCard", "next", 0)))
  /\ statusEl' = "loading"

\* DOMContentLoaded -> init().
U_init ==
  /\ page = "upload"
  /\ \E t \in Pending :
       /\ t.fn = "init"
       /\ U_loadCardStart(Remove(tasks, t))
  /\ lastEvent' = NoEvent
  /\ UNCHANGED <<recogVars, page, audioVars, feedbackBox, callVars, textVars, loads, nextBtn, translateBtn, mediaRecorder>>

\* loadCard() after `await fetch("/api/fr/next")`.
U_loadCardResume ==
  /\ page = "upload"
  /\ \E t \in Pending, o \in NextOutcomes :
       /\ t.fn = "loadCard"
       /\ tasks' = Remove(tasks, t)
       /\ lastEvent' = Ev("next", o)
       /\ CASE o = "ok" ->
                 /\ loads < MaxCards
                 /\ \E c \in Cards(ShadowTypes) :
                      /\ currentCard' = c
                      /\ loads' = c.cardId
                 /\ statusEl' = "card"
                 /\ revealBtn' = [revealBtn EXCEPT !.disabled = FALSE]
            [] o = "notFound" ->
                 /\ statusEl' = "noDue"
                 /\ UNCHANGED <<currentCard, loads, revealBtn>>
            [] OTHER ->
                 /\ statusEl' = "fetchFailed"
                 /\ UNCHANGED <<currentCard, loads, revealBtn>>
  /\ UNCHANGED <<recVars, recogVars, page, audioVars, feedbackBox, callVars, textVars, answerShown, answerBox, easeButtons, nextBtn,
                 translateBtn>>

\* Click on #record-btn: stopRecording() while the current recorder is
\* recording, else startRecording() up to `await getUserMedia(...)`.
U_recordClick ==
  /\ page = "upload"
  /\ Bound
  /\ ~recordBtn.disabled
  /\ lastEvent' = NoEvent
  /\ IF Recording(mediaRecorder)
     THEN /\ U_stopActiveRecording(tasks)
          /\ UNCHANGED recordClicked
     ELSE /\ Room
          /\ recordBtn' = [disabled |-> TRUE]
          /\ recordClicked' = TRUE
          /\ tasks' = Add(tasks, Task("startRecording", "getUserMedia", currentCard.cardId))
          /\ UNCHANGED <<recs, mediaStream>>
  /\ UNCHANGED <<cardVars, recogVars, page, audioVars, feedbackBox, callVars, textVars, loads, mediaRecorder, recordedChunks,
                 recordedBlob, playbackUrl>>

\* startRecording() after `await getUserMedia(...)`.
U_startRecordingResume ==
  /\ page = "upload"
  /\ \E t \in Pending, o \in MicOutcomes :
       /\ t.fn = "startRecording"
       /\ tasks' = Remove(tasks, t)
       /\ lastEvent' = Ev("getUserMedia", o)
       /\ IF o = "granted"
          THEN /\ Len(recs) < MaxRecordings
               /\ recs' = Append(recs, NewRec(currentCard.cardId))
               /\ mediaStream' = Len(recs) + 1
               /\ mediaRecorder' = Len(recs) + 1
               /\ recordedChunks' = <<>>
               /\ recordedBlob' = <<>>
          ELSE UNCHANGED <<recs, mediaStream, mediaRecorder, recordedChunks, recordedBlob>>
       /\ recordBtn' = [disabled |-> FALSE]
  /\ UNCHANGED <<cardVars, recogVars, page, audioVars, feedbackBox, callVars, textVars, loads, playbackUrl, recordClicked>>

\* The task a stopped recorder queued: ondataavailable (the chunk is pushed
\* when it has a size), then onstop.
U_recorderStop ==
  /\ page = "upload"
  /\ \E t \in Pending, hasData \in BOOLEAN :
       /\ t.fn = "recorder"
       /\ tasks' = Remove(tasks, t)
       /\ lastEvent' = NoEvent
       /\ recordedChunks' = IF hasData THEN Append(recordedChunks, t.rec)
                            ELSE recordedChunks
       /\ IF recordedChunks' = <<>>
          THEN UNCHANGED <<recordedBlob, playbackUrl>>
          ELSE /\ recordedBlob' = recordedChunks'
               /\ playbackUrl' = recordedChunks'
       /\ mediaRecorder' = 0
  /\ UNCHANGED <<cardVars, recogVars, page, audioVars, feedbackBox, callVars, textVars, loads, recs, mediaStream, recordBtn,
                 recordClicked>>

\* The end of showAnswer() without the call of renderEaseButtons.
U_finishNoButtons ==
  /\ revealBtn' = [revealBtn EXCEPT !.hidden = TRUE]
  /\ easeButtons' = easeButtons

\* The end of showAnswer(): reveal button hidden, ease buttons rendered when
\* currentCard is set and its buttons are an array.
U_finishShowAnswer ==
  /\ revealBtn' = [revealBtn EXCEPT !.hidden = TRUE]
  /\ easeButtons' = IF currentCard # NoCard /\ currentCard.buttonsIsArray
                    THEN "enabled" ELSE easeButtons

\* ensureRecordingStopped() called after stopActiveRecording(): the current
\* recorder, when there is one, is inactive by then
\* (mediaRecorder.state === "recording" is false), so no listener is added
\* and nothing is awaited.  The run remembers in `rec` which recorder its
\* stopRecording() stopped.
U_ensureRecordingStopped(t) ==
  [t EXCEPT !.rec = IF Recording(mediaRecorder) THEN mediaRecorder ELSE 0]

\* Click on #reveal-btn: showAnswer() through stopRecording() and
\* ensureRecordingStopped(), which finds the recorder already inactive, up
\* to `await fetch("/api/fr/reveal")`.
U_revealClick ==
  /\ page = "upload"
  /\ Bound
  /\ ~revealBtn.disabled /\ ~revealBtn.hidden
  /\ lastEvent' = NoEvent
  /\ IF currentCard = NoCard \/ answerShown
     THEN /\ revealBtn' = [revealBtn EXCEPT !.disabled = TRUE]
          /\ UNCHANGED <<answerShown, tasks, recs, mediaStream, recordBtn, recordClicked>>
     ELSE /\ Room
          /\ revealBtn' = [revealBtn EXCEPT !.disabled = TRUE]
          /\ answerShown' = TRUE
          /\ U_stopActiveRecording(
               Add(tasks, U_ensureRecordingStopped(
                            Task("showAnswer", "reveal", currentCard.cardId))))
          /\ recordClicked' = FALSE
  /\ UNCHANGED <<recogVars, page, audioVars, feedbackBox, callVars, textVars, loads, currentCard, statusEl, nextBtn, easeButtons,
                 answerBox, translateBtn, mediaRecorder, recordedChunks, recordedBlob,
                 playbackUrl>>

\* showAnswer() after the reveal fetch: the answer is shown, then
\* analyzePronunciation() builds the blob from the chunks when there is none
\* and uploads it, or finds no recording and returns.
U_showAnswerAfterReveal ==
  /\ page = "upload"
  /\ \E t \in Pending, o \in RevealOutcomes :
       /\ t.fn = "showAnswer" /\ t.req = "reveal"
       /\ lastEvent' = Ev("reveal", o)
       /\ statusEl' = revealCaught(o)
       /\ IF currentCard = NoCard
          THEN /\ tasks' = Remove(tasks, t)
               /\ UNCHANGED <<answerBox, recordedBlob, revealBtn, easeButtons>>
          ELSE /\ answerBox' = "shown"
               /\ recordedBlob' = IF recordedBlob = <<>> THEN recordedChunks
                                  ELSE recordedBlob
               /\ IF recordedBlob' = <<>>
                  THEN /\ tasks' = Remove(tasks, t)
                       /\ U_finishShowAnswer
                  ELSE /\ tasks' = Add(Remove(tasks, t),
                                       [t EXCEPT !.req = "analyze",
                                                 !.card = currentCard.cardId,
                                                 !.blob = recordedBlob'])
                       /\ UNCHANGED <<revealBtn, easeButtons>>
  /\ UNCHANGED <<recogVars, page, audioVars, feedbackBox, callVars, textVars, loads, currentCard, answerShown, nextBtn,
                 translateBtn, recordBtn, mediaRecorder, mediaStream, recs,
                 recordedChunks, playbackUrl, recordClicked>>

\* showAnswer() after `await analyzePronunciation()`.
U_showAnswerAfterAnalyze ==
  /\ page = "upload"
  /\ \E t \in Pending, o \in AnalyzeOutcomes :
       /\ t.fn = "showAnswer" /\ t.req = "analyze"
       /\ lastEvent' = Ev("analyze", o)
       /\ tasks' = Remove(tasks, t)
       /\ U_finishShowAnswer
  /\ UNCHANGED <<recVars, recogVars, page, audioVars, feedbackBox, callVars, textVars, loads, currentCard, answerShown, statusEl,
                 nextBtn, answerBox, translateBtn>>

\* Click on an ease button: submitAnswer(ease) up to its await.
U_easeClick ==
  /\ page = "upload"
  /\ easeButtons = "enabled"
  /\ lastEvent' = NoEvent
  /\ IF currentCard = NoCard
     THEN UNCHANGED <<statusEl, easeButtons, tasks>>
     ELSE /\ Room
          /\ statusEl' = "submitting"
          /\ easeButtons' = "disabled"
          /\ tasks' = Add(tasks, Task("submitAnswer", "answer", currentCard.cardId))
  /\ UNCHANGED <<recVars, recogVars, page, audioVars, feedbackBox, callVars, textVars, loads, currentCard, answerShown, answerBox,
                 revealBtn, nextBtn, translateBtn>>

\* submitAnswer() after `await fetch("/api/fr/answer")`.
U_submitAnswerResume ==
  /\ page = "upload"
  /\ \E t \in Pending, o \in AnswerOutcomes :
       /\ t.fn = "submitAnswer"
       /\ lastEvent' = Ev("answer", o)
       /\ IF o = "ok"
          THEN U_loadCardStart(Remove(tasks, t))
          ELSE /\ tasks' = Remove(tasks, t)
               /\ statusEl' = SubmitFailed(o)
               /\ easeButtons' = IF easeButtons = "none" THEN "none" ELSE "enabled"
               /\ revealBtn' = [revealBtn EXCEPT !.disabled = FALSE]
               /\ UNCHANGED <<currentCard, answerShown, answerBox, recVars>>
  /\ UNCHANGED <<recogVars, page, audioVars, feedbackBox, callVars, textVars, loads, nextBtn, translateBtn, mediaRecorder>>

NextUpload ==
  \/ U_init
  \/ U_loadCardResume
  \/ U_recordClick
  \/ U_startRecordingResume
  \/ U_recorderStop
  \/ U_revealClick
  \/ U_showAnswerAfterReveal
  \/ U_showAnswerAfterAnalyze
  \/ U_easeClick
  \/ U_submitAnswerResume

-----------------------------------------------------------------------------
(* The scoring functions of src/unnamed/part_003 *)

\* Two lower-case letters, an upper-case letter and a character outside
\* [a-zœæç'\-] (a digit).
ScoreChars == {"a", "b", "A", "1"}

Strings == UNION {[1..n -> ScoreChars] : n \in 0..MaxLen}

Min(x, y) == IF x <= y THEN x ELSE y
Max(x, y) == IF x >= y THEN x ELSE y

\* The characters normalizeForCompare is given besides ScoreChars: a
\* precomposed accented letter, a combining mark on its own, the cedilla
\* letter and the ligature that the character class names, an apostrophe, a
\* hyphen, a space and punctuation.
NormChars == {"a", "A", "e-acute", "combining-acute", "c-cedilla", "oe",
              "'", "-", " ", "1", "."}

NormStrings == UNION {[1..n -> NormChars] : n \in 0..MaxLen}

\* The canonical decomposition of one character.
decompose(c) ==
  CASE c = "e-acute" -> <<"e", "combining-acute">>
    [] c = "c-cedilla" -> <<"c", "combining-cedilla">>
    [] OTHER -> <<c>>

\* .normalize("NFD")
RECURSIVE NFD(_)
NFD(str) ==
  IF str = <<>> THEN <<>> ELSE decompose(Head(str)) \o NFD(Tail(str))

\* The range ̀-ͯ.
Combining(c) == c \in {"combining-acute", "combining-cedilla"}

\* .replace(/[̀-ͯ]/g, "")
stripMarks(str) == SelectSeq(str, LAMBDA c : ~Combining(c))

\* .toLowerCase() on one character.
toLowerCase(c) == IF c = "A" THEN "a" ELSE c

\* The character class [a-zœæç'\-] of normalizeForCompare.
Kept(c) ==
  c \in {"a", "b", "c", "e", "h", "j", "n", "o", "r", "s", "t", "u",
         "oe", "c-cedilla", "'", "-"}

\* .replace(/[^a-zœæç'\-]+/g, " "): every run of other characters becomes
\* one space.
RECURSIVE replaceRuns(_, _)
replaceRuns(str, inRun) ==
  IF str = <<>> THEN <<>>
  ELSE IF Kept(Head(str)) THEN <<Head(str)>> \o replaceRuns(Tail(str), FALSE)
  ELSE IF inRun THEN replaceRuns(Tail(str), TRUE)
  ELSE <<" ">> \o replaceRuns(Tail(str), TRUE)

\* The first three steps of normalizeForCompare: decompose, drop the
\* combining marks, lower case.
folded(value) ==
  LET bare == stripMarks(NFD(value))
  IN  [i \in DOMAIN bare |-> toLowerCase(bare[i])]

\* normalizeForCompare with .trim() ahead of the .replace of the other
\* characters.
normalizeTrimFirst(value) == replaceRuns(trim(folded(value)), FALSE)

\* normalizeForCompare(value): decompose, drop the combining marks, lower
\* case, other characters to spaces, trim.
normalizeForCompare(value) == trim(replaceRuns(folded(value), FALSE))

\* One cell of the rolling row when the characters differ, without the
\* substitution (diagonal) term.
cellNoSubstitution(same, prev, up, left) ==
  IF same THEN prev ELSE Min(up + 1, left + 1)

\* One cell of the rolling row without the dp[j - 1] term.
cellNoLeft(same, prev, up, left) ==
  IF same THEN prev ELSE Min(prev + 1, up + 1)

\* One cell of the rolling row that never takes the equal-characters branch.
cellNoMatch(same, prev, up, left) ==
  Min(prev + 1, Min(up + 1, left + 1))

\* The body of the inner loop: dp[j] = prev when a[i - 1] === b[j - 1],
\* else Math.min(prev + 1, dp[j] + 1, dp[j - 1] + 1).
cell(same, prev, up, left) ==
  IF same THEN prev ELSE Min(prev + 1, Min(up + 1, left + 1))

\* for (j = 1; j <= n; j += 1) over the single row dp, prev holding the old
\* dp[j - 1]; dp has the n + 1 entries 0..n, so j <= n is j \in DOMAIN dp.
RECURSIVE innerLoop(_, _, _, _, _, _)
innerLoop(a, b, i, j, dp, prev) ==
  IF j \notin DOMAIN dp THEN dp
  ELSE LET temp == dp[j]
       IN  innerLoop(a, b, i, j + 1,
                     [dp EXCEPT ![j] = cell(a[i] = b[j], prev, dp[j], dp[j - 1])],
                     temp)

\* for (i = 1; i <= m; i += 1): prev = dp[0]; dp[0] = i; inner loop.
RECURSIVE outerLoop(_, _, _, _)
outerLoop(a, b, i, dp) ==
  IF i > Len(a) THEN dp
  ELSE outerLoop(a, b, i + 1, innerLoop(a, b, i, 1, [dp EXCEPT ![0] = i], dp[0]))

\* levenshtein(a, b).
levenshtein(a, b) ==
  IF Len(a) = 0 THEN Len(b)
  ELSE IF Len(b) = 0 THEN Len(a)
  ELSE outerLoop(a, b, 1, [j \in 0..Len(b) |-> j])[Len(b)]

\* A score as the fraction num / den; Zero is `return 0`.
Score(num, den) == [num |-> num, den |-> den]
Zero == Score(0, 1)

\* similarityScore without its guard on empty normalized strings.
similarityScoreUnguarded(exp, act) ==
  LET cleanExpected == normalizeForCompare(exp)
      cleanActual == normalizeForCompare(act)
      maxLen == Max(Len(cleanExpected), Len(cleanActual))
  IN  Score(maxLen - levenshtein(cleanExpected, cleanActual), maxLen)

\* similarityScore(expected, actual): 1 - distance / maxLen.
similarityScore(exp, act) ==
  LET cleanExpected == normalizeForCompare(exp)
      cleanActual == normalizeForCompare(act)
      distance == levenshtein(cleanExpected, cleanActual)
      maxLen == Max(Len(cleanExpected), Len(cleanActual))
  IN  IF cleanExpected = <<>> \/ cleanActual = <<>> THEN Zero
      ELSE IF maxLen = 0 THEN Zero
      ELSE Score(maxLen - distance, maxLen)

\* score >= pct / 100, on the fraction.
atLeast(score, pct) == score.num * 100 >= pct * score.den

\* Math.round(score * 100)
roundPct(score) == (200 * score.num + score.den) \div (2 * score.den)

\* A final result of the recognizer as pushed by onresult: the card the
\* session was started for and result[0].transcript.trim().
Segment(card, transcript) == [card |-> card, transcript |-> transcript]

\* recognizedSegments.join(" ")
RECURSIVE join(_)
join(segments) ==
  IF segments = <<>> THEN <<>>
  ELSE IF Len(segments) = 1 THEN segments[1].transcript
  ELSE segments[1].transcript \o <<" ">> \o join(Tail(segments))

\* feedbackBox: hidden or shown, and its text by kind with the percentage
\* the text quotes.
Feedback(tier, pct) == [hidden |-> FALSE, tier |-> tier, pct |-> pct]
NoFeedback == [hidden |-> TRUE, tier |-> "", pct |-> 0]

\* The feedback tiers with the second threshold exclusive.
tierOfStrict(score) ==
  IF atLeast(score, 85) THEN "veryClose"
  ELSE IF score.num * 100 > 60 * score.den THEN "decent"
  ELSE "largeDeviation"

\* if (score >= 0.85) ... else if (score >= 0.6) ... else ...
\* (1 - distance / maxLen in floating point equals the literals 0.85 and 0.6
\* exactly when the fraction does, so the fraction decides the same way.)
tierOf(score) ==
  IF atLeast(score, 85) THEN "veryClose"
  ELSE IF atLeast(score, 60) THEN "decent"
  ELSE "largeDeviation"

\* evaluatePronunciation() scoring whatever was recognized, empty or not.
evaluateAlwaysScored(card, supported, sentence, segments, before) ==
  LET act == trim(join(segments))
      score == similarityScore(sentence, act)
  IN  IF card = NoCard THEN before
      ELSE IF ~supported THEN Feedback("unsupported", 0)
      ELSE Feedback(tierOf(score), roundPct(score))

\* evaluatePronunciation() on what feedbackBox showed before: sentence is
\* currentCard.data?.sentence || "".
evaluatePronunciation(card, supported, sentence, segments, before) ==
  LET act == trim(join(segments))
      score == similarityScore(sentence, act)
  IN  IF card = NoCard THEN before
      ELSE IF ~supported THEN Feedback("unsupported", 0)
      ELSE IF act = <<>> THEN Feedback("noText", 0)
      ELSE Feedback(tierOf(score), roundPct(score))

-----------------------------------------------------------------------------
(* Local-scoring shadowing page: src/unnamed/part_003 *)

\* recognition.start(): the recognizer starts a session and queues its
\* start event; on a recognizer that is not idle the call throws, which the
\* callers catch.
RecognitionStart ==
  IF recognizer.state = "idle"
  THEN [state |-> "starting", card |-> currentCard.cardId]
  ELSE recognizer

\* stopRecognition().
L_stopRecognition ==
  /\ recognitionShouldRestart' = FALSE
  /\ recognizer' = IF recognition /\ recognitionActive /\ recognizer.state = "running"
                   THEN [recognizer EXCEPT !.state = "stopping"]
                   ELSE recognizer

\* stopActiveRecording(); `rest` is what the caller leaves in the task bag.
L_stopActiveRecording(rest) ==
  /\ recs' = [i \in DOMAIN recs |->
               [recs[i] EXCEPT !.state = IF i \in Stopping THEN "inactive" ELSE @,
                               !.live = IF i = mediaStream THEN FALSE ELSE @]]
  /\ mediaStream' = 0
  /\ L_stopRecognition
  /\ recordBtn' = [disabled |-> FALSE]
  /\ tasks' = rest (+) StopEvents(Stopping)

\* resetRecordingArtifacts(false).
L_resetRecordingArtifacts(rest) ==
  /\ L_stopActiveRecording(rest)
  /\ recordedChunks' = <<>>
  /\ recognizedSegments' = <<>>
  /\ playbackUrl' = <<>>

\* clearUI().
L_clearUI(rest) ==
  /\ currentCard' = NoCard
  /\ answerShown' = FALSE
  /\ answerBox' = "hidden"
  /\ easeButtons' = "none"
  /\ revealBtn' = [disabled |-> TRUE, hidden |-> FALSE]
  /\ feedbackBox' = NoFeedback
  /\ L_resetRecordingArtifacts(rest)
  /\ recordClicked' = FALSE

\* loadCard() up to its await.
L_loadCardStart(rest) ==
  /\ L_clearUI(Add(rest, Task("loadCard", "next", 0)))
  /\ statusEl' = "loading"

\* DOMContentLoaded -> init().
L_init ==
  /\ page = "local"
  /\ \E t \in Pending :
       /\ t.fn = "init"
       /\ L_loadCardStart(Remove(tasks, t))
  /\ lastEvent' = NoEvent
  /\ UNCHANGED <<page, audioVars, callVars, textVars, loads, nextBtn, translateBtn, mediaRecorder, recordedBlob,
                 SpeechRecognition, recognition, recognitionActive>>

\* loadCard() after `await fetch("/api/fr/next")`.
L_loadCardResume ==
  /\ page = "local"
  /\ \E t \in Pending, o \in NextOutcomes :
       /\ t.fn = "loadCard"
       /\ tasks' = Remove(tasks, t)
       /\ lastEvent' = Ev("next", o)
       /\ CASE o = "ok" ->
                 /\ loads < MaxCards
                 /\ \E c \in Cards(ShadowTypes) :
                      /\ currentCard' = c
                      /\ loads' = c.cardId
                 /\ statusEl' = "card"
                 /\ revealBtn' = [revealBtn EXCEPT !.disabled = FALSE]
            [] o = "notFound" ->
                 /\ statusEl' = "noDue"
                 /\ UNCHANGED <<currentCard, loads, revealBtn>>
            [] OTHER ->
                 /\ statusEl' = "fetchFailed"
                 /\ UNCHANGED <<currentCard, loads, revealBtn>>
  /\ UNCHANGED <<recVars, recogVars, page, audioVars, feedbackBox, callVars, textVars, answerShown, answerBox, easeButtons, nextBtn,
                 translateBtn>>

\* Click on #record-btn: stopRecording() while the current recorder is
\* recording, else startRecording() up to `await getUserMedia(...)`.
L_recordClick ==
  /\ page = "local"
  /\ Bound
  /\ ~recordBtn.disabled
  /\ lastEvent' = NoEvent
  /\ IF Recording(mediaRecorder)
     THEN /\ L_stopActiveRecording(tasks)
          /\ UNCHANGED recordClicked
     ELSE /\ Room
          /\ recordBtn' = [disabled |-> TRUE]
          /\ recordClicked' = TRUE
          /\ tasks' = Add(tasks, Task("startRecording", "getUserMedia", currentCard.cardId))
          /\ UNCHANGED <<recs, mediaStream, recognitionShouldRestart, recognizer>>
  /\ UNCHANGED <<cardVars, page, audioVars, feedbackBox, callVars, textVars, loads, mediaRecorder, recordedChunks, recordedBlob,
                 playbackUrl, SpeechRecognition, recognition, recognitionActive,
                 recognizedSegments>>

\* startRecognition(), with initRecognition() creating the recognizer on
\* first use.
L_startRecognition ==
  IF SpeechRecognition
  THEN /\ recognition' = TRUE
       /\ recognizedSegments' = <<>>
       /\ recognitionShouldRestart' = TRUE
       /\ recognizer' = RecognitionStart
  ELSE UNCHANGED <<recognition, recognizedSegments, recognitionShouldRestart, recognizer>>

\* startRecording() after `await getUserMedia(...)`.
L_startRecordingResume ==
  /\ page = "local"
  /\ \E t \in Pending, o \in MicOutcomes :
       /\ t.fn = "startRecording"
       /\ tasks' = Remove(tasks, t)
       /\ lastEvent' = Ev("getUserMedia", o)
       /\ IF o = "granted"
          THEN /\ Len(recs) < MaxRecordings
               /\ recs' = Append(recs, NewRec(currentCard.cardId))
               /\ mediaStream' = Len(recs) + 1
               /\ mediaRecorder' = Len(recs) + 1
               /\ recordedChunks' = <<>>
               /\ L_startRecognition
          ELSE UNCHANGED <<recs, mediaStream, mediaRecorder, recordedChunks, recognition,
                           recognizedSegments, recognitionShouldRestart, recognizer>>
       /\ recordBtn' = [disabled |-> FALSE]
  /\ UNCHANGED <<cardVars, page, audioVars, feedbackBox, callVars, textVars, loads, playbackUrl, recordedBlob, recordClicked,
                 SpeechRecognition, recognitionActive>>

\* The task a stopped recorder queued: ondataavailable, then onstop.
L_recorderStop ==
  /\ page = "local"
  /\ \E t \in Pending, hasData \in BOOLEAN :
       /\ t.fn = "recorder"
       /\ tasks' = Remove(tasks, t)
       /\ lastEvent' = NoEvent
       /\ recordedChunks' = IF hasData THEN Append(recordedChunks, t.rec)
                            ELSE recordedChunks
       /\ playbackUrl' = IF recordedChunks' = <<>> THEN playbackUrl ELSE recordedChunks'
       /\ mediaRecorder' = 0
  /\ UNCHANGED <<cardVars, recogVars, page, audioVars, feedbackBox, callVars, textVars, loads, recs, mediaStream, recordBtn,
                 recordedBlob, recordClicked>>

\* recognition.onstart.
L_recognitionOnStart ==
  /\ page = "local"
  /\ recognizer.state = "starting"
  /\ recognizer' = [recognizer EXCEPT !.state = "running"]
  /\ recognitionActive' = TRUE
  /\ lastEvent' = NoEvent
  /\ UNCHANGED <<cardVars, recVars, page, audioVars, feedbackBox, callVars, textVars, loads, tasks, SpeechRecognition, recognition,
                 recognitionShouldRestart, recognizedSegments>>

\* What result[0].transcript.trim() can be on the page: nothing or a word.
LocalTranscripts == {<<>>, <<"a">>}

\* What data.sentence of a card can be on the page.
LocalSentences == {<<>>, <<"a">>, <<"a", "b">>}

\* recognition.onresult with one final result: its transcript is pushed.
L_recognitionOnResult ==
  /\ page = "local"
  /\ recognizer.state \in {"running", "stopping"}
  /\ Len(recognizedSegments) < MaxSegments
  /\ \E transcript \in LocalTranscripts :
       recognizedSegments' =
         Append(recognizedSegments, Segment(recognizer.card, transcript))
  /\ lastEvent' = NoEvent
  /\ UNCHANGED <<cardVars, recVars, page, audioVars, feedbackBox, callVars, textVars, loads, tasks, SpeechRecognition, recognition,
                 recognitionShouldRestart, recognitionActive, recognizer>>

\* recognition.onend: the session is over (stopped, ended by the browser,
\* or never started); the handler starts a new one while the current
\* recorder is recording and no stop was requested.
L_recognitionOnEnd ==
  /\ page = "local"
  /\ recognizer.state \in {"starting", "running", "stopping"}
  /\ recognitionActive' = FALSE
  /\ recognizer' = IF recognitionShouldRestart /\ Recording(mediaRecorder)
                   THEN [state |-> "starting", card |-> currentCard.cardId]
                   ELSE [recognizer EXCEPT !.state = "idle"]
  /\ lastEvent' = Ev("recognition", "end")
  /\ UNCHANGED <<cardVars, recVars, page, audioVars, feedbackBox, callVars, textVars, loads, tasks, SpeechRecognition, recognition,
                 recognitionShouldRestart, recognizedSegments>>

\* Click on #reveal-btn: showAnswer() through stopRecording() up to
\* `await fetch("/api/fr/reveal")`.
L_revealClick ==
  /\ page = "local"
  /\ Bound
  /\ ~revealBtn.disabled /\ ~revealBtn.hidden
  /\ lastEvent' = NoEvent
  /\ IF currentCard = NoCard \/ answerShown
     THEN /\ revealBtn' = [revealBtn EXCEPT !.disabled = TRUE]
          /\ UNCHANGED <<answerShown, tasks, recs, mediaStream, recordBtn, recordClicked,
                         recognitionShouldRestart, recognizer>>
     ELSE /\ Room
          /\ revealBtn' = [revealBtn EXCEPT !.disabled = TRUE]
          /\ answerShown' = TRUE
          /\ L_stopActiveRecording(Add(tasks, Task("showAnswer", "reveal", currentCard.cardId)))
          /\ recordClicked' = FALSE
  /\ UNCHANGED <<page, audioVars, feedbackBox, callVars, textVars, loads, currentCard, statusEl, nextBtn, easeButtons, answerBox,
                 translateBtn, mediaRecorder, recordedChunks, recordedBlob, playbackUrl,
                 SpeechRecognition, recognition, recognitionActive, recognizedSegments>>

\* showAnswer() after the reveal fetch: the answer is shown,
\* evaluatePronunciation() (which awaits nothing) gives its feedback on the
\* sentence the card's data carries, the reveal button is hidden and the
\* ease buttons are rendered.
L_showAnswerAfterReveal ==
  /\ page = "local"
  /\ \E t \in Pending, o \in RevealOutcomes :
       /\ t.fn = "showAnswer" /\ t.req = "reveal"
       /\ lastEvent' = Ev("reveal", o)
       /\ statusEl' = revealCaught(o)
       /\ tasks' = Remove(tasks, t)
       /\ IF currentCard = NoCard
          THEN UNCHANGED <<answerBox, revealBtn, easeButtons, feedbackBox>>
          ELSE /\ answerBox' = "shown"
               /\ \E sentence \in LocalSentences :
                    feedbackBox' =
                      evaluatePronunciation(currentCard, SpeechRecognition, sentence,
                                            recognizedSegments, feedbackBox)
               /\ revealBtn' = [revealBtn EXCEPT !.hidden = TRUE]
               /\ easeButtons' = IF currentCard.buttonsIsArray THEN "enabled"
                                 ELSE easeButtons
  /\ UNCHANGED <<recVars, recogVars, page, audioVars, callVars, textVars, loads, currentCard, answerShown, nextBtn, translateBtn>>

\* Click on an ease button: submitAnswer(ease) up to its await.
L_easeClick ==
  /\ page = "local"
  /\ easeButtons = "enabled"
  /\ lastEvent' = NoEvent
  /\ IF currentCard = NoCard
     THEN UNCHANGED <<statusEl, easeButtons, tasks>>
     ELSE /\ Room
          /\ statusEl' = "submitting"
          /\ easeButtons' = "disabled"
          /\ tasks' = Add(tasks, Task("submitAnswer", "answer", currentCard.cardId))
  /\ UNCHANGED <<recVars, recogVars, page, audioVars, feedbackBox, callVars, textVars, loads, currentCard, answerShown, answerBox,
                 revealBtn, nextBtn, translateBtn>>

\* submitAnswer() after `await fetch("/api/fr/answer")`.
L_submitAnswerResume ==
  /\ page = "local"
  /\ \E t \in Pending, o \in AnswerOutcomes :
       /\ t.fn = "submitAnswer"
       /\ lastEvent' = Ev("answer", o)
       /\ IF o = "ok"
          THEN L_loadCardStart(Remove(tasks, t))
          ELSE /\ tasks' = Remove(tasks, t)
               /\ statusEl' = SubmitFailed(o)
               /\ easeButtons' = IF easeButtons = "none" THEN "none" ELSE "enabled"
               /\ revealBtn' = [revealBtn EXCEPT !.disabled = FALSE]
               /\ UNCHANGED <<currentCard, answerShown, answerBox, recVars, feedbackBox,
                              recognitionShouldRestart, recognizedSegments, recognizer>>
  /\ UNCHANGED <<page, audioVars, callVars, textVars, loads, nextBtn, translateBtn, mediaRecorder, recordedBlob,
                 SpeechRecognition, recognition, recognitionActive>>

NextLocal ==
  \/ L_init
  \/ L_loadCardResume
  \/ L_recordClick
  \/ L_startRecordingResume
  \/ L_recorderStop
  \/ L_recognitionOnStart
  \/ L_recognitionOnResult
  \/ L_recognitionOnEnd
  \/ L_revealClick
  \/ L_showAnswerAfterReveal
  \/ L_easeClick
  \/ L_submitAnswerResume

-----------------------------------------------------------------------------
(* The scoring functions called on their own *)

\* What a call returned.
Returned(fn, value) == [fn |-> fn, value |-> value]
NoCall == Returned("", 0)

S_unchanged ==
  UNCHANGED <<page, audioVars, feedbackBox, cardVars, textVars, tasks, loads, lastEvent, recVars, recogVars,
              expected, actual>>

\* A call of levenshtein(expected, actual).
S_levenshtein ==
  /\ page = "scoring"
  /\ returned' = Returned("levenshtein", levenshtein(expected, actual))
  /\ S_unchanged

\* A call of normalizeForCompare(expected).
S_normalizeForCompare ==
  /\ page \in {"scoring", "normalize"}
  /\ returned' = Returned("normalizeForCompare", normalizeForCompare(expected))
  /\ S_unchanged

\* A call of similarityScore(expected, actual).
S_similarityScore ==
  /\ page = "scoring"
  /\ returned' = Returned("similarityScore", similarityScore(expected, actual))
  /\ S_unchanged

NextScoring ==
  \/ S_levenshtein
  \/ S_normalizeForCompare
  \/ S_similarityScore

\* The words of the scenarios.
Le == <<"l", "e">>
Chat == <<"c", "h", "a", "t">>
Bonjour == <<"b", "o", "n", "j", "o", "u", "r">>

\* Token texts: two words, a closing mark, an opening bracket, a bracket in
\* neither class, a character escapeHtml rewrites, and two closing marks in
\* one token.
TokenTexts ==
  {Le, Chat, <<",">>, <<"(">>, <<"[">>, <<"<">>, <<")", ",">>}

Tokens == {Token(text, status) : text \in TokenTexts, status \in {"match", "missing", "extra"}}

\* Every argument: absent, or up to MaxTokens tokens.
Args ==
  {Arg(TRUE, <<>>)} \cup {Arg(FALSE, ts) : ts \in UNION {[1..n -> Tokens] : n \in 0..MaxTokens}}

\* A call of renderTokens(expected).
S_renderTokens ==
  /\ page = "render"
  /\ returned' = Returned("renderTokens", renderTokens(expected))
  /\ S_unchanged

\* data.sentence of the card evaluatePronunciation is called with.
Sentences == Strings \cup {Chat, Bonjour}

\* The transcripts the recognizer has pushed when it is called: nothing
\* heard, a letter, a digit, and two that are one and two edits away from
\* Chat.
Transcripts ==
  {<<>>, <<"a">>, <<"1">>, Chat \o <<"s">>, <<"c", "h", "a", "s", "s">>}

Heard ==
  UNION {[1..n -> {Segment(0, t) : t \in Transcripts}] : n \in 0..MaxHeard}

\* A call of evaluatePronunciation() with data.sentence = expected; it
\* returns undefined.
S_evaluatePronunciation ==
  /\ page = "evaluate"
  /\ feedbackBox' = evaluatePronunciation(currentCard, SpeechRecognition, expected,
                                          recognizedSegments, feedbackBox)
  /\ actual' = trim(join(recognizedSegments))
  /\ returned' = Returned("evaluatePronunciation", 0)
  /\ UNCHANGED <<page, audioVars, cardVars, textVars, tasks, loads, lastEvent, recVars, recogVars,
                 expected>>

-----------------------------------------------------------------------------
(* Specifications *)

InitPage(p) ==
  /\ page = p
  /\ currentCard = NoCard
  /\ answerShown = FALSE
  /\ statusEl = ""
  /\ revealBtn = [disabled |-> FALSE, hidden |-> FALSE]
  /\ nextBtn = [disabled |-> FALSE]
  /\ easeButtons = "none"
  /\ answerBox = "hidden"
  /\ translateBtn = "none"
  /\ tasks = SetToBag({Task("init", "DOMContentLoaded", 0)})
  /\ loads = 0
  /\ lastEvent = NoEvent
  /\ inputBox = <<>>
  /\ html = NoHtml
  /\ recordBtn = [disabled |-> FALSE]
  /\ mediaRecorder = 0
  /\ mediaStream = 0
  /\ recs = <<>>
  /\ recordedChunks = <<>>
  /\ recordedBlob = <<>>
  /\ playbackUrl = <<>>
  /\ recordClicked = FALSE
  /\ recognition = FALSE
  /\ recognitionShouldRestart = FALSE
  /\ recognitionActive = FALSE
  /\ recognizedSegments = <<>>
  /\ recognizer = [state |-> "idle", card |-> 0]
  /\ feedbackBox = NoFeedback
  /\ audioPlayer = NoAudio
  /\ timers = {}
  /\ expected = <<>>
  /\ actual = <<>>
  /\ returned = NoCall

InitMain == InitPage("main") /\ SpeechRecognition = FALSE

SpecMain == InitMain /\ [][NextMain]_vars

InitVocab == InitPage("vocab") /\ SpeechRecognition = FALSE

SpecVocab == InitVocab /\ [][NextVocab]_vars

InitUpload == InitPage("upload") /\ SpeechRecognition = FALSE

SpecUpload == InitUpload /\ [][NextUpload]_vars

InitLocal == InitPage("local") /\ SpeechRecognition \in BOOLEAN

SpecLocal == InitLocal /\ [][NextLocal]_vars

\* The scoring functions with every pair of arguments.
InitScoring ==
  /\ page = "scoring"
  /\ currentCard = NoCard
  /\ answerShown = FALSE
  /\ statusEl = ""
  /\ revealBtn = [disabled |-> FALSE, hidden |-> FALSE]
  /\ nextBtn = [disabled |-> FALSE]
  /\ easeButtons = "none"
  /\ answerBox = "hidden"
  /\ translateBtn = "none"
  /\ tasks = EmptyBag
  /\ loads = 0
  /\ lastEvent = NoEvent
  /\ inputBox = <<>>
  /\ html = NoHtml
  /\ recordBtn = [disabled |-> FALSE]
  /\ mediaRecorder = 0
  /\ mediaStream = 0
  /\ recs = <<>>
  /\ recordedChunks = <<>>
  /\ recordedBlob = <<>>
  /\ playbackUrl = <<>>
  /\ recordClicked = FALSE
  /\ SpeechRecognition = FALSE
  /\ recognition = FALSE
  /\ recognitionShouldRestart = FALSE
  /\ recognitionActive = FALSE
  /\ recognizedSegments = <<>>
  /\ recognizer = [state |-> "idle", card |-> 0]
  /\ feedbackBox = NoFeedback
  /\ audioPlayer = NoAudio
  /\ timers = {}
  /\ expected \in Strings
  /\ actual \in Strings
  /\ returned = NoCall

SpecScoring == InitScoring /\ [][NextScoring]_vars

\* normalizeForCompare with every argument over NormChars.
InitNormalize ==
  /\ page = "normalize"
  /\ currentCard = NoCard
  /\ answerShown = FALSE
  /\ statusEl = ""
  /\ revealBtn = [disabled |-> FALSE, hidden |-> FALSE]
  /\ nextBtn = [disabled |-> FALSE]
  /\ easeButtons = "none"
  /\ answerBox = "hidden"
  /\ translateBtn = "none"
  /\ tasks = EmptyBag
  /\ loads = 0
  /\ lastEvent = NoEvent
  /\ inputBox = <<>>
  /\ html = NoHtml
  /\ recordBtn = [disabled |-> FALSE]
  /\ mediaRecorder = 0
  /\ mediaStream = 0
  /\ recs = <<>>
  /\ recordedChunks = <<>>
  /\ recordedBlob = <<>>
  /\ playbackUrl = <<>>
  /\ recordClicked = FALSE
  /\ SpeechRecognition = FALSE
  /\ recognition = FALSE
  /\ recognitionShouldRestart = FALSE
  /\ recognitionActive = FALSE
  /\ recognizedSegments = <<>>
  /\ recognizer = [state |-> "idle", card |-> 0]
  /\ feedbackBox = NoFeedback
  /\ audioPlayer = NoAudio
  /\ timers = {}
  /\ expected \in NormStrings
  /\ actual = <<>>
  /\ returned = NoCall

SpecNormalize == InitNormalize /\ [][S_normalizeForCompare]_vars

\* evaluatePronunciation with and without a card and a recognizer, every
\* sentence and everything heard.
InitEvaluate ==
  /\ page = "evaluate"
  /\ currentCard \in {NoCard, [cardId |-> 1, type |-> "shadowing", buttonsIsArray |-> TRUE]}
  /\ answerShown = FALSE
  /\ statusEl = ""
  /\ revealBtn = [disabled |-> FALSE, hidden |-> FALSE]
  /\ nextBtn = [disabled |-> FALSE]
  /\ easeButtons = "none"
  /\ answerBox = "hidden"
  /\ translateBtn = "none"
  /\ tasks = EmptyBag
  /\ loads = 0
  /\ lastEvent = NoEvent
  /\ inputBox = <<>>
  /\ html = NoHtml
  /\ recordBtn = [disabled |-> FALSE]
  /\ mediaRecorder = 0
  /\ mediaStream = 0
  /\ recs = <<>>
  /\ recordedChunks = <<>>
  /\ recordedBlob = <<>>
  /\ playbackUrl = <<>>
  /\ recordClicked = FALSE
  /\ SpeechRecognition \in BOOLEAN
  /\ recognition = FALSE
  /\ recognitionShouldRestart = FALSE
  /\ recognitionActive = FALSE
  /\ recognizedSegments \in Heard
  /\ recognizer = [state |-> "idle", card |-> 0]
  /\ feedbackBox = NoFeedback
  /\ audioPlayer = NoAudio
  /\ timers = {}
  /\ expected \in Sentences
  /\ actual = <<>>
  /\ returned = NoCall

SpecEvaluate == InitEvaluate /\ [][S_evaluatePronunciation]_vars

\* renderTokens with every argument.
InitRender ==
  /\ page = "render"
  /\ currentCard = NoCard
  /\ answerShown = FALSE
  /\ statusEl = ""
  /\ revealBtn = [disabled |-> FALSE, hidden |-> FALSE]
  /\ nextBtn = [disabled |-> FALSE]
  /\ easeButtons = "none"
  /\ answerBox = "hidden"
  /\ translateBtn = "none"
  /\ tasks = EmptyBag
  /\ loads = 0
  /\ lastEvent = NoEvent
  /\ inputBox = <<>>
  /\ html = NoHtml
  /\ recordBtn = [disabled |-> FALSE]
  /\ mediaRecorder = 0
  /\ mediaStream = 0
  /\ recs = <<>>
  /\ recordedChunks = <<>>
  /\ recordedBlob = <<>>
  /\ playbackUrl = <<>>
  /\ recordClicked = FALSE
  /\ SpeechRecognition = FALSE
  /\ recognition = FALSE
  /\ recognitionShouldRestart = FALSE
  /\ recognitionActive = FALSE
  /\ recognizedSegments = <<>>
  /\ recognizer = [state |-> "idle", card |-> 0]
  /\ feedbackBox = NoFeedback
  /\ audioPlayer = NoAudio
  /\ timers = {}
  /\ expected \in Args
  /\ actual = <<>>
  /\ returned = NoCall

SpecRender == InitRender /\ [][S_renderTokens]_vars

\* The two text-answer pages.
InitText == InitMain \/ InitVocab
NextText == NextMain \/ NextVocab
SpecText == InitText /\ [][NextText]_vars

\* The vocabulary page and the upload-based shadowing page, with every
\* pending request and every queued callback completing in the end: the
\* steps that resume a suspended function or deliver an event are weakly
\* fair (clicks and typing are not).
InitLive == InitVocab \/ InitUpload
NextLive == NextVocab \/ NextUpload
Completion ==
  /\ WF_vars(V_init) /\ WF_vars(V_loadCardResume)
  /\ WF_vars(V_showAnswerAfterReveal) /\ WF_vars(V_showAnswerAfterDiff)
  /\ WF_vars(V_submitAnswerResume)
  /\ WF_vars(U_init) /\ WF_vars(U_loadCardResume)
  /\ WF_vars(U_startRecordingResume) /\ WF_vars(U_recorderStop)
  /\ WF_vars(U_showAnswerAfterReveal) /\ WF_vars(U_showAnswerAfterAnalyze)
  /\ WF_vars(U_submitAnswerResume)
SpecLive == InitLive /\ [][NextLive]_vars /\ Completion

Init == InitMain \/ InitVocab \/ InitUpload \/ InitLocal \/ InitScoring

Next == NextMain \/ NextVocab \/ NextUpload \/ NextLocal \/ NextScoring

Spec == Init /\ [][Next]_vars

-----------------------------------------------------------------------------
(* Claims *)

\* Requests of kind k in flight that were sent for the card now current.
InFlightFor(reqs) ==
  {t \in Pending : t.req \in reqs /\ currentCard # NoCard /\ t.card = currentCard.cardId}

\* C1: on the main study page a card never has two rating submissions in
\* flight at the same time (a second one is sent only after the first failed).
C1_OneSubmissionInFlight ==
  page = "main" =>
    \A t \in Pending : t.fn = "submitAnswer" => CopiesIn(t, tasks) <= 1

\* C2: on the main study page, whenever a rating request is in flight for the
\* current card, answerShown is true.
C2_RatedOnlyAfterReveal ==
  page = "main" => (InFlightFor({"answer"}) # {} => answerShown)

\* C8: on the main study page ease buttons are never present for the current
\* card while a showAnswer run started on that card is still in flight.
C8_NoEaseButtonsDuringReveal ==
  page = "main" =>
    ~(easeButtons # "none" /\ \E t \in InFlightFor({"reveal", "diff"}) : t.fn = "showAnswer")

\* C9: on the main study page at most one of the reveal, diff, translate and
\* answer requests concerning the current card is pending at any time.
C9_OneRequestPerCard ==
  page = "main" =>
    BagCardinality([t \in InFlightFor({"reveal", "diff", "translate", "answer"})
                      |-> CopiesIn(t, tasks)]) <= 1

\* C3: on the shadowing pages, once the callbacks that were pending at a
\* reveal or a card load have run, and with no click on the record button
\* since, no microphone track is live and no recorder is recording.
C3_NoCaptureAfterStop ==
  page \in {"upload", "local"} =>
    (Bound /\ tasks = EmptyBag /\ ~recordClicked =>
       \A i \in DOMAIN recs : ~recs[i].live /\ recs[i].state # "recording")

\* Audio in chunks cs that a recorder started on an earlier card captured.
FromEarlierCard(cs, id) ==
  \E k \in DOMAIN cs : recs[cs[k]].card \notin {0, id}

\* C4: on the upload-based shadowing page, once a card is loaded,
\* recordedChunks, recordedBlob and playbackUrl hold no audio captured during
\* an earlier card, and an analysis upload never carries such audio with the
\* later card's id.
C4_NoAudioOfEarlierCard ==
  page = "upload" =>
    /\ currentCard # NoCard =>
         /\ ~FromEarlierCard(recordedChunks, currentCard.cardId)
         /\ ~FromEarlierCard(recordedBlob, currentCard.cardId)
         /\ ~FromEarlierCard(playbackUrl, currentCard.cardId)
    /\ \A t \in Pending : t.req = "analyze" => ~FromEarlierCard(t.blob, t.card)

\* C5: on the local-scoring shadowing page, after stopRecognition() (which
\* leaves recognitionShouldRestart false) the recognizer is not left running:
\* it is idle, or its start or end event is still to come.
C5_RecognizerNotLeftRunning ==
  page = "local" =>
    (recognition /\ ~recognitionShouldRestart => recognizer.state # "running")

\* C10: on the shadowing pages, while a rating request is in flight every
\* interactive control is disabled: the record button, the reveal button
\* and the ease buttons.
C10_ControlsDisabledWhileRating ==
  page \in {"upload", "local"} =>
    ((\E t \in Pending : t.fn = "submitAnswer") =>
       /\ recordBtn.disabled
       /\ revealBtn.disabled \/ revealBtn.hidden
       /\ easeButtons # "enabled")

FailedAnswers == {Ev("answer", o) : o \in AnswerOutcomes \ {"ok"}}

NextRequests(bag) == CopiesIn(Task("loadCard", "next", 0), bag)

\* C6: in every controller, the step that handles a failed rating request
\* shows the failure in the status, leaves currentCard and answerShown as
\* they were, leaves the ease buttons and the reveal button enabled, and
\* sends no next-card request.
C6_FailedRating ==
  [][lastEvent' \in FailedAnswers =>
       /\ statusEl' = SubmitFailed(lastEvent'.outcome)
       /\ currentCard' = currentCard
       /\ answerShown' = answerShown
       /\ easeButtons' = "enabled"
       /\ ~revealBtn'.disabled
       /\ NextRequests(tasks') <= NextRequests(tasks)]_vars

\* C7: in every controller, after a 404 on the next-card request the status
\* reports that no card is due, currentCard is null and the reveal button is
\* disabled, and with no card the reveal button only becomes enabled when a
\* card load succeeds.
C7_NoDueCard ==
  /\ [](statusEl = "noDue" => currentCard = NoCard /\ revealBtn.disabled)
  /\ [][currentCard = NoCard /\ revealBtn.disabled /\ ~revealBtn'.disabled
          => lastEvent' = Ev("next", "ok")]_vars

\* C11: on the shadowing pages, once the answer of the current card has been
\* revealed, no step starts a recording for that card: no microphone request
\* is sent and no recorder is created while that card stays current.
C11_NoRecordingAfterReveal ==
  [][(page \in {"upload", "local"} /\ answerShown /\ currentCard # NoCard
        /\ currentCard' = currentCard)
       => /\ Len(recs') = Len(recs)
          /\ \A t \in BagToSet(tasks') :
               t.fn = "startRecording" => CopiesIn(t, tasks') <= CopiesIn(t, tasks)]_vars

\* A diff request whose user text is the trimmed input t.
DiffsOf(bag) == {t \in BagToSet(bag) : t.req = "diff"}

\* C12 as stated: on the text-answer pages no diff request is in flight for
\* a reveal whose trimmed user input is empty.
C12_NoDiffForEmptyInput ==
  page \in {"main", "vocab"} => \A t \in DiffsOf(tasks) : t.userText # <<>>

\* C12: on the text-answer pages, when the answer is revealed while the
\* trimmed user input is empty, a diff request is still sent, and when it
\* settles (successfully or not) the user's line of the answer box shows the
\* "not filled in" placeholder.
C12_PlaceholderForEmptyInput ==
  [][(page \in {"main", "vocab"} /\ lastEvent'.what = "diff"
        /\ \A t \in DiffsOf(tasks) : t.userText = <<>>)
       => html'.actualHtml = Placeholder]_vars

\* A reveal with an empty trimmed input (white space was typed) has shown
\* the placeholder after a diff that succeeded with tokens.
C12_Witness ==
  /\ lastEvent = Ev("diff", "ok")
  /\ inputBox # <<>> /\ trim(inputBox) = <<>>
  /\ html.actualHtml = Placeholder
  /\ html.expectedHtml = "tokens"

\* line shows userText with every "<" replaced by its entity and every other
\* character as typed (the placeholder when userText is empty).
ShowsEscaped(line, userText) ==
  IF userText = <<>> THEN line = Placeholder
  ELSE /\ line.as = "escaped"
       /\ Len(line.text) = Len(userText)
       /\ \A i \in DOMAIN userText :
            line.text[i] = (IF userText[i] = "<" THEN "&lt;" ELSE userText[i])

\* The step handles a failed diff request: the answer box is shown with the
\* escaped raw expected text and the escaped raw user text of the run, the
\* run is over and the status text is untouched.
FallbackShown ==
  /\ answerBox' = "shown"
  /\ html'.expectedHtml = "escaped"
  /\ \E t \in DiffsOf(tasks) :
       /\ ShowsEscaped(html'.actualHtml, t.userText)
       /\ tasks' = Detach(Remove(tasks, t))
  /\ statusEl' = statusEl

DiffFailed == page \in {"main", "vocab"} /\ lastEvent' = Ev("diff", "fail")

\* Every card the server sent has the shape the pages expect: its buttons
\* are an array.
WellFormed == currentCard # NoCard => currentCard.buttonsIsArray

\* C13: on the text-answer pages, with cards that carry a buttons array, the
\* step that handles a failed diff request completes the reveal: the answer
\* box shows the escaped raw expected text and the escaped raw user text,
\* the status text is unchanged, and the ease buttons are rendered.
C13_DiffFailureFallback ==
  [][DiffFailed /\ WellFormed => FallbackShown /\ easeButtons' = "enabled"]_vars

\* The showAnswer run goes on to its next request (diff or analysis upload).
RunContinues ==
  \E t \in BagToSet(tasks') :
    /\ t.fn = "showAnswer" /\ t.req \in {"diff", "analyze"}
    /\ CopiesIn(t, tasks') > CopiesIn(t, tasks)

\* The reveal is complete: the answer is shown and the ease buttons of the
\* card are there to be clicked.
RevealComplete ==
  /\ answerBox' = "shown"
  /\ currentCard.buttonsIsArray => easeButtons' = "enabled"

RecognitionEnded == page = "local" /\ lastEvent' = Ev("recognition", "end")

\* Some recorder is recording.
RecordingActive == \E i \in DOMAIN recs : recs[i].state = "recording"

\* C15: on the local-scoring shadowing page, when the recognizer ends with
\* no stop asked of it (recognitionShouldRestart still set, the session
\* starting or running) while a recorder is recording, the onend step starts
\* it again; when it ends after stopRecognition() (flag cleared), the step
\* leaves it idle, and no step starts a session while the flag is cleared.
C15_RecognizerRestart ==
  [][/\ (RecognitionEnded /\ recognitionShouldRestart /\ RecordingActive
           /\ recognizer.state \in {"starting", "running"})
          => recognizer'.state = "starting"
     /\ (RecognitionEnded /\ ~recognitionShouldRestart)
          => recognizer'.state = "idle"
     /\ ~recognitionShouldRestart'
          => ~(recognizer.state = "idle" /\ recognizer'.state = "starting")]_vars

\* Requests of the rating kind in the bag.
AnswerRequests(bag) ==
  BagCardinality([t \in {u \in BagToSet(bag) : u.fn = "submitAnswer"} |-> CopiesIn(t, bag)])

\* A click (a step that resumes from no request) that sends a next-card
\* request, and one that sends a rating request.
RetryLoad ==
  Next /\ lastEvent' = NoEvent /\ NextRequests(tasks') > NextRequests(tasks)
RetryRating ==
  Next /\ lastEvent' = NoEvent /\ AnswerRequests(tasks') > AnswerRequests(tasks)

\* C16: in every controller, while the status shows a failed card fetch
\* (other than 404) some control is enabled whose click sends the next-card
\* request again, and while it shows a failed rating some control is enabled
\* whose click sends the rating again.
C16_RetryControl ==
  (Bound /\ Room) =>
    /\ statusEl = "fetchFailed" => ENABLED RetryLoad
    /\ statusEl \in {SubmitFailed(o) : o \in AnswerOutcomes \ {"ok"}} => ENABLED RetryRating

\* The classic edit distance: insertion, deletion and substitution cost 1.
RECURSIVE editDistance(_, _)
editDistance(a, b) ==
  IF a = <<>> THEN Len(b)
  ELSE IF b = <<>> THEN Len(a)
  ELSE Min(editDistance(Tail(a), Tail(b)) + (IF Head(a) = Head(b) THEN 0 ELSE 1),
           Min(editDistance(Tail(a), b) + 1, editDistance(a, Tail(b)) + 1))

\* C17: for every pair of strings over ScoreChars of length up to MaxLen
\* (empty strings included), levenshtein(a, b) computed with the rolling row
\* is the classic edit distance.
C17_LevenshteinIsEditDistance ==
  returned.fn = "levenshtein" => returned.value = editDistance(expected, actual)

\* levenshtein("aba", "bb") has returned 2 (a deletion and a substitution).
C17_Witness ==
  /\ returned = Returned("levenshtein", 2)
  /\ expected = <<"a", "b", "a">>
  /\ actual = <<"b", "b">>

\* C18 as stated: similarityScore(a, a) = 1 for every string a.
C18_SelfSimilarityAlways ==
  (returned.fn = "similarityScore" /\ expected = actual)
    => returned.value.num = returned.value.den

\* C18: for every string a whose normalized form is not empty,
\* similarityScore(a, a) = 1.
C18_SelfSimilarity ==
  (returned.fn = "similarityScore" /\ expected = actual
     /\ normalizeForCompare(expected) # <<>>)
    => returned.value.num = returned.value.den

\* similarityScore("A1b", "A1b") has returned 3/3.
C18_Witness ==
  /\ returned = Returned("similarityScore", Score(3, 3))
  /\ expected = <<"A", "1", "b">>
  /\ actual = expected

\* C19: for every pair (a, b) in which normalizeForCompare(a) or
\* normalizeForCompare(b) is empty, similarityScore(a, b) is 0, and no score
\* is a division by zero.
C19_EmptyScoresZero ==
  returned.fn = "similarityScore" =>
    /\ returned.value.den # 0
    /\ (normalizeForCompare(expected) = <<>> \/ normalizeForCompare(actual) = <<>>)
         => returned.value.num = 0

\* similarityScore("1", "ab") has returned 0: the first string normalizes
\* to the empty string.
C19_Witness ==
  /\ returned = Returned("similarityScore", Zero)
  /\ expected = <<"1">>
  /\ actual = <<"a", "b">>

\* C20: for every pair of strings over ScoreChars of length up to MaxLen,
\* levenshtein(a, b) = levenshtein(b, a).
C20_LevenshteinSymmetric ==
  returned.fn = "levenshtein" => returned.value = levenshtein(actual, expected)

\* levenshtein("a", "bab") has returned 2, with arguments of different
\* lengths.
C20_Witness ==
  /\ returned = Returned("levenshtein", 2)
  /\ expected = <<"a">>
  /\ actual = <<"b", "a", "b">>

\* C21: normalizeForCompare is idempotent: normalizing what a call
\* returned gives it back unchanged.
C21_NormalizeIdempotent ==
  returned.fn = "normalizeForCompare"
    => normalizeForCompare(returned.value) = returned.value

\* The call was given an accented letter, an upper-case letter and
\* punctuation, and returned something other than its argument.
C21_Witness ==
  /\ returned.fn = "normalizeForCompare"
  /\ returned.value # expected
  /\ \E i \in DOMAIN expected : expected[i] = "e-acute"
  /\ \E i \in DOMAIN expected : expected[i] = "A"
  /\ \E i \in DOMAIN expected : expected[i] = "."

\* evaluatePronunciation has run with a card, a recognizer and some
\* recognized text.
Scored ==
  /\ returned.fn = "evaluatePronunciation"
  /\ currentCard # NoCard
  /\ SpeechRecognition
  /\ actual # <<>>

\* C22: for every non-empty recognized text, evaluatePronunciation shows
\* exactly one of the three tiers, decided by distance and maxLen of the
\* normalized strings: "very close" when 1 - distance/maxLen >= 0.85,
\* "decent" when it is at least 0.60 and below 0.85, "large deviation" below
\* 0.60 (and when a normalized string is empty, where the score is 0); for
\* expected "chat" and recognized "chats" the tier is "decent" at 80%.
C22_FeedbackTiers ==
  Scored =>
    LET cleanExpected == normalizeForCompare(expected)
        cleanActual == normalizeForCompare(actual)
        distance == levenshtein(cleanExpected, cleanActual)
        maxLen == Max(Len(cleanExpected), Len(cleanActual))
        scored == cleanExpected # <<>> /\ cleanActual # <<>>
        tier == feedbackBox.tier
    IN  /\ ~feedbackBox.hidden
        /\ tier \in {"veryClose", "decent", "largeDeviation"}
        /\ tier = "veryClose" <=> scored /\ 100 * (maxLen - distance) >= 85 * maxLen
        /\ tier = "decent" <=>
             /\ scored
             /\ 100 * (maxLen - distance) >= 60 * maxLen
             /\ 100 * (maxLen - distance) < 85 * maxLen
        /\ (expected = Chat /\ actual = Chat \o <<"s">>) =>
             /\ distance = 1
             /\ maxLen = 5
             /\ feedbackBox = Feedback("decent", 80)

\* The scenario: "chat" expected, "chats" recognized, "decent" at 80% shown.
C22_Witness ==
  /\ Scored
  /\ expected = Chat
  /\ recognizedSegments = <<Segment(0, Chat \o <<"s">>)>>
  /\ feedbackBox = Feedback("decent", 80)

\* C25: when evaluatePronunciation runs with a card and a recognizer and the
\* joined, trimmed segments are empty, the feedback is the fixed "no valid
\* text recognized" message with no percentage, whatever the expected
\* sentence is ("bonjour" included).
C25_NoTextFeedback ==
  (/\ returned.fn = "evaluatePronunciation"
   /\ currentCard # NoCard
   /\ SpeechRecognition
   /\ trim(join(recognizedSegments)) = <<>>)
    => feedbackBox = Feedback("noText", 0)

\* "bonjour" was expected, the recognizer pushed two empty transcripts, and
\* the fixed message is shown.
C25_Witness ==
  /\ returned.fn = "evaluatePronunciation"
  /\ expected = Bonjour
  /\ Len(recognizedSegments) = 2
  /\ trim(join(recognizedSegments)) = <<>>
  /\ feedbackBox = Feedback("noText", 0)

\* The positions of the spans in `parts`, from position k on.
RECURSIVE spansOf(_, _)
spansOf(parts, k) ==
  IF k > Len(parts) THEN <<>>
  ELSE (IF parts[k].kind = "span" THEN <<k>> ELSE <<>>) \o spansOf(parts, k + 1)

\* C23: in what renderTokens returns, every part that is not a token's span
\* is a single space, the first and the last part are spans (no leading or
\* trailing space), and between the spans of two consecutive tokens there is
\* exactly one space, except none when the second token is a single closing
\* punctuation character (one of , . ; ! ? ) : ] and the right curly quotes)
\* or the first is a single opening bracket or quote (one of ( { and the
\* left curly quotes).
C23_SingleSpaces ==
  (returned.fn = "renderTokens" /\ ~expected.absent /\ expected.tokens # <<>>) =>
    LET parts == returned.value
        tokens == expected.tokens
        at == spansOf(parts, 1)
    IN  /\ Len(at) = Len(tokens)
        /\ \A k \in DOMAIN parts : parts[k].kind # "span" => parts[k] = Separator
        /\ at[1] = 1
        /\ at[Len(at)] = Len(parts)
        /\ \A i \in 1..(Len(tokens) - 1) :
             at[i + 1] - at[i] - 1 =
               IF isPunct(tokens[i + 1].text) \/ isOpening(tokens[i].text)
               THEN 0 ELSE 1

\* "(", "le", "," in a row have been rendered as three spans with no space
\* between them.
C23_Witness ==
  /\ returned.fn = "renderTokens"
  /\ Len(expected.tokens) = 3
  /\ expected.tokens[1].text = <<"(">>
  /\ expected.tokens[2].text = Le
  /\ expected.tokens[3].text = <<",">>
  /\ Len(returned.value) = 3

\* C24: renderTokens returns one span per token, in input order, of class
\* diff-match, diff-miss or diff-extra for status match, missing or extra,
\* holding the token's escaped text; [le: match, chat: missing] gives the
\* diff-match span of "le", one space, the diff-miss span of "chat"; an empty
\* or absent sequence gives the empty string.
C24_SpanPerToken ==
  returned.fn = "renderTokens" =>
    LET parts == returned.value
        tokens == expected.tokens
        at == spansOf(parts, 1)
        want == [match |-> "diff-match", missing |-> "diff-miss", extra |-> "diff-extra"]
    IN  /\ (expected.absent \/ tokens = <<>>) => parts = <<>>
        /\ ~expected.absent =>
             /\ Len(at) = Len(tokens)
             /\ \A i \in DOMAIN tokens :
                  /\ parts[at[i]].cls = want[tokens[i].status]
                  /\ parts[at[i]].text = escapeHtml(tokens[i].text)
        /\ (~expected.absent /\ tokens = <<Token(Le, "match"), Token(Chat, "missing")>>) =>
             parts = <<Span("diff-match", Le), Separator, Span("diff-miss", Chat)>>

\* The scenario's two tokens have been rendered.
C24_Witness ==
  /\ expected = Arg(FALSE, <<Token(Le, "match"), Token(Chat, "missing")>>)
  /\ returned = Returned("renderTokens",
                         <<Span("diff-match", Le), Separator, Span("diff-miss", Chat)>>)

\* C26: on the upload-based shadowing page, when the showAnswer run of a
\* Reveal click that stopped a capturing recorder goes on to the analysis
\* (its reveal notification has settled), the data and stop events of that
\* recorder have been delivered: none is still queued.
C26_AnalysisAfterStopEvents ==
  [][\A t \in BagToSet(tasks) :
       (/\ page = "upload"
        /\ t.fn = "showAnswer" /\ t.req = "reveal" /\ t.rec # 0
        /\ lastEvent'.what = "reveal"
        /\ CopiesIn(t, tasks') < CopiesIn(t, tasks))
         => \A e \in BagToSet(tasks) : ~(e.fn = "recorder" /\ e.rec = t.rec)]_vars

\* At most one granted microphone stream has a live track.
OneLiveStream == Cardinality({i \in DOMAIN recs : recs[i].live}) <= 1

\* Every recorder that is capturing is the one mediaRecorder refers to.
CapturingIsCurrent == \A i \in DOMAIN recs : recs[i].state = "recording" => mediaRecorder = i

\* C27: on the shadowing pages at most one microphone stream is live at a
\* time, and whenever a recorder is capturing, mediaRecorder refers to it.
C27_OneStreamOneRecorder ==
  page \in {"upload", "local"} => OneLiveStream /\ CapturingIsCurrent

\* A showAnswer run started by a Reveal click is suspended at a request,
\* on a card that carries a button list.
RevealUnderWay ==
  /\ page \in {"vocab", "upload"}
  /\ currentCard # NoCard /\ currentCard.buttonsIsArray
  /\ \E t \in BagToSet(tasks) : t.fn = "showAnswer"

\* C28: on the vocabulary page and the upload-based shadowing page, once
\* Reveal has been clicked on a loaded card with a button list, the ease
\* buttons are eventually rendered, however the reveal notification, the
\* diff and the analysis settle and whether or not there is a recording.
C28_EaseButtonsEventually == RevealUnderWay ~> easeButtons = "enabled"

\* The ease buttons have been rendered by the step that handled a failed
\* analysis.
C28_Witness ==
  /\ page = "upload"
  /\ easeButtons = "enabled"
  /\ lastEvent = Ev("analyze", "fail")

\* C29: on the main study page, when the auto-play timer starts playback,
\* the audio it starts belongs to the card that is current at that time: no
\* audio is started while no card is current, and none of an earlier card.
C29_AutoplayOnlyCurrentCard ==
  [][(page = "main" /\ lastEvent' = Ev("timer", "fired") /\ audioPlayer'.playing # 0)
       => currentCard # NoCard /\ audioPlayer'.playing = currentCard.cardId]_vars

\* C30: on the text-answer pages, after every step in which loadCard ends
\* by putting a card fetch failure into the status text, currentCard is null
\* and the reveal button is disabled.
C30_FailedLoadLeavesNoCard ==
  [][(/\ page \in {"main", "vocab"}
      /\ lastEvent'.what = "next"
      /\ statusEl' = "fetchFailed")
       => currentCard' = NoCard /\ revealBtn'.disabled]_vars

\* The recognized segments that carry a word and come from a recognition
\* session started while another card was current.
FromEarlierSession ==
  {i \in DOMAIN recognizedSegments :
     /\ recognizedSegments[i].transcript # <<>>
     /\ recognizedSegments[i].card \notin {0, currentCard.cardId}}

\* C31: on the local-scoring shadowing page, when showAnswer has just
\* handled the reveal request of a loaded card and evaluatePronunciation has
\* scored the recognized segments, none of the segments it scored was
\* recognized in a session started on an earlier card.
C31_ScoredSegmentsOfThisCard ==
  (/\ page = "local"
   /\ lastEvent.what = "reveal"
   /\ currentCard # NoCard
   /\ SpeechRecognition)
    => FromEarlierSession = {}

====
